---- MODULE Spec2Model ----
(***************************************************************************)
(* State-machine model of the TGSRTC GTFS analyzer:                        *)
(*   - the route consolidation pipeline of src/src/generators              *)
(*     (representative trips, route geometries, merged / split features);  *)
(*   - the journey planner of src/old_scripts/gtfs_trip_planner.py         *)
(*     (index construction and the findRoutesRaptor search).               *)
(*   - the table cache of GTFSLoader in src/src/data/gtfs_loader.py.       *)
(*                                                                         *)
(* Table cells are tagged values: Txt(s) a string, Num(n) a number, NaN a  *)
(* missing cell, None a missing column (what row.get returns).  Strings    *)
(* that are compared or sorted are sequences of code points, so that       *)
(* Python's str ordering is computed, not assumed.                         *)
(***************************************************************************)
EXTENDS Integers, Sequences, FiniteSets, TLC

VARIABLES
    stops,        \* stops.txt rows: [stop_id, stop_name, stop_lat, stop_lon]
    stop_times,   \* stop_times.txt rows: [trip_id, stop_id, stop_sequence]
    trips,        \* trips.txt rows: [trip_id, route_id, direction_id]
    routes,       \* routes.txt: [cols, rows], rows [route_id, route_short_name, route_long_name]
    rep_trips,    \* rows returned by the representative-trip selection
    geometries,   \* ordered dict (route_id, direction_id) -> geometry, as a list of entries
    features,     \* the feature list returned by the generator
    DATA,         \* the planner's indices, embedded in the page as const DATA
    originLoc,    \* the origin place of the last search
    destLoc,      \* the destination place of the last search
    candidates,   \* findRoutesRaptor's `results` array before it is sorted
    results,      \* what findRoutesRaptor returned (`unique`)
    alert,        \* what the last findRoutes call alerted, "none" if nothing
    setA,         \* the first argument of a calculate_route_overlap call
    setB,         \* its second argument
    overlap,      \* what the call returned
    disk,         \* the files of the data directory: table name -> file state
    cache,        \* GTFSLoader._cache: table name -> the table read
    reads,        \* the number of pd.read_csv calls made so far
    call,         \* the last call on the loader and how it ended
    pc            \* "loaded" | "interactive" | "network" | "indexed" | "loading" |
                  \* "searched" | "computed" | "aborted"

feedVars == <<stops, stop_times, trips, routes>>
mapVars == <<rep_trips, geometries, features>>
planVars == <<DATA, originLoc, destLoc, candidates, results, alert>>
geoVars == <<setA, setB, overlap>>
loaderVars == <<disk, cache, reads, call>>
vars == <<stops, stop_times, trips, routes, rep_trips, geometries, features,
          DATA, originLoc, destLoc, candidates, results, alert,
          setA, setB, overlap, disk, cache, reads, call, pc>>

-----------------------------------------------------------------------------
(* Cell values *)

NaN == [k |-> "nan"]
None == [k |-> "none"]
Num(n) == [k |-> "num", v |-> n]
Txt(s) == [k |-> "str", v |-> s]

\* pd.isna / pd.notna
IsNa(c) == c.k = "nan"

\* pd.to_numeric(column, errors='coerce'): numbers stay, anything else is NaN
ToNumeric(c) == IF c.k = "num" THEN c ELSE NaN

\* Python truthiness of a cell in `a or b or c`: None is falsy, the empty
\* string is falsy, the number 0 is falsy; float('nan') is truthy.
Truthy(c) ==
    CASE c.k = "none" -> FALSE
      [] c.k = "nan"  -> TRUE
      [] c.k = "num"  -> c.v # 0
      [] c.k = "str"  -> c.v # <<>>

STR_NAN == <<110, 97, 110>>                          \* "nan"
SUFFIX_BIDIR == <<32, 40, 66, 105, 100, 105, 114, 101, 99, 116, 105, 111, 110, 97, 108, 41>>  \* " (Bidirectional)"
SUFFIX_OUTBOUND == <<32, 40, 79, 117, 116, 98, 111, 117, 110, 100, 41>>  \* " (Outbound)"
SUFFIX_INBOUND == <<32, 40, 73, 110, 98, 111, 117, 110, 100, 41>>        \* " (Inbound)"

\* str(name) for the cells a route name can be: a string is itself, NaN is "nan"
Str(c) == IF c.k = "str" THEN c.v ELSE STR_NAN

\* Python's str `<`: lexicographic on code points, a proper prefix is smaller
StrLess(a, b) ==
    \E i \in 1..Len(b) :
        /\ \A j \in 1..(i - 1) : j <= Len(a) /\ a[j] = b[j]
        /\ (i > Len(a) \/ a[i] < b[i])

-----------------------------------------------------------------------------
(* Sequence helpers *)

Range(s) == {s[i] : i \in DOMAIN s}

Min(a, b) == IF a <= b THEN a ELSE b
Max(a, b) == IF a >= b THEN a ELSE b

\* the subsequence of s at the indices satisfying Keep, in order
RECURSIVE SelectIdx(_, _, _)
SelectIdx(s, keep, i) ==
    IF i > Len(s) THEN <<>>
    ELSE (IF i \in keep THEN <<s[i]>> ELSE <<>>) \o SelectIdx(s, keep, i + 1)

RECURSIVE Flatten(_)
Flatten(ss) == IF ss = <<>> THEN <<>> ELSE Head(ss) \o Flatten(Tail(ss))

\* a stable sort of s, where less[i][j] tells that s[i] sorts before s[j]:
\* element i goes after every smaller element and after every earlier
\* element that is not greater
StableSort(s, less) ==
    LET n == Len(s)
        Rank(i) == 1 + Cardinality({j \in 1..n :
                        less[j][i] \/ (j < i /\ ~less[i][j])})
    IN  [r \in 1..n |-> s[CHOOSE i \in 1..n : Rank(i) = r]]

Perms(n) == {p \in [1..n -> 1..n] : \A i, j \in 1..n : p[i] = p[j] => i = j}

-----------------------------------------------------------------------------
(* Configuration: src/src/config.py *)

\* MERGE_THRESHOLD = 0.3, kept as the fraction 3/10.  A quotient i/u of two
\* set sizes is compared with the double nearest 0.3; i/u itself is rounded
\* to nearest, so i/u > 0.3 in doubles exactly when 10*i > 3*u.
MERGE_THRESHOLD == [num |-> 3, den |-> 10]

\* a faulty variant of FracGt: >= for >
FracGe(x, y) == x.num * y.den >= y.num * x.den

\* x > y on fractions with positive denominators
FracGt(x, y) == x.num * y.den > y.num * x.den

-----------------------------------------------------------------------------
(* src/src/utils/geo.py *)

\* a faulty variant of calculate_route_overlap: the shared stops as a share
\* of the first set
calculate_route_overlap_of_first(stops1, stops2) ==
    IF stops1 = {} \/ stops2 = {} THEN [num |-> 0, den |-> 1]
    ELSE [num |-> Cardinality(stops1 \cap stops2), den |-> Cardinality(stops1)]

\* a faulty variant of calculate_route_overlap: two empty sets count as equal
calculate_route_overlap_empty_equal(stops1, stops2) ==
    IF stops1 = {} /\ stops2 = {} THEN [num |-> 1, den |-> 1]
    ELSE IF stops1 = {} \/ stops2 = {} THEN [num |-> 0, den |-> 1]
    ELSE [num |-> Cardinality(stops1 \cap stops2), den |-> Cardinality(stops1 \cup stops2)]

\* calculate_route_overlap: Jaccard similarity of two stop-id sets, 0.0 when
\* either is empty
calculate_route_overlap(stops1, stops2) ==
    IF stops1 = {} \/ stops2 = {} THEN [num |-> 0, den |-> 1]
    ELSE LET intersection == Cardinality(stops1 \cap stops2)
             union == Cardinality(stops1 \cup stops2)
         IN  IF union > 0 THEN [num |-> intersection, den |-> union]
             ELSE [num |-> 0, den |-> 1]

-----------------------------------------------------------------------------
(* src/src/data/gtfs_loader.py: GTFSLoader.get_representative_trips *)

D0 == Txt("0")
D1 == Txt("1")

\* stop_times.groupby('trip_id').size(): the number of visits of a trip
\* (a trip without visits has no row in the result)
TripCount(st, tid) == Cardinality({i \in DOMAIN st : st[i].trip_id = tid})

\* column.fillna(value)
FillNa(c, value) == IF IsNa(c) THEN value ELSE c

\* trips.merge(trip_counts, on='trip_id'): an inner join, in the order of
\* the trips table; then direction_id.fillna('0')
TripsEnriched(tr, st) ==
    LET rows == SelectIdx(tr, {i \in DOMAIN tr : TripCount(st, tr[i].trip_id) > 0}, 1)
    IN  [i \in DOMAIN rows |->
            [trip_id |-> rows[i].trip_id,
             route_id |-> rows[i].route_id,
             direction_id |-> FillNa(rows[i].direction_id, D0),
             stop_count |-> TripCount(st, rows[i].trip_id)]]

\* a faulty variant of SortValuesDesc: ascending
SortValuesAsc(te) ==
    {[i \in DOMAIN te |-> te[p[i]]] :
        p \in {q \in Perms(Len(te)) :
                \A i, j \in DOMAIN te :
                    i < j => te[q[i]].stop_count <= te[q[j]].stop_count}}

\* DataFrame.sort_values('stop_count', ascending=False) with the default
\* kind='quicksort', which is not a stable sort: every arrangement that is
\* descending in stop_count is a possible result
SortValuesDesc(te) ==
    {[i \in DOMAIN te |-> te[p[i]]] :
        p \in {q \in Perms(Len(te)) :
                \A i, j \in DOMAIN te :
                    i < j => te[q[i]].stop_count >= te[q[j]].stop_count}}

\* DataFrame.drop_duplicates(['route_id', 'direction_id']): keep='first'
DropDuplicates(s) ==
    SelectIdx(s, {i \in DOMAIN s :
                    \A j \in 1..(i - 1) :
                        ~(s[j].route_id = s[i].route_id
                          /\ s[j].direction_id = s[i].direction_id)}, 1)

\* the possible results of get_representative_trips()
get_representative_trips(tr, st) ==
    {DropDuplicates(s) : s \in SortValuesDesc(TripsEnriched(tr, st))}

-----------------------------------------------------------------------------
(* src/src/generators/interactive_map.py: _build_route_geometries *)

\* stops_df with stop_lat / stop_lon through pd.to_numeric(errors='coerce')
StopsNumeric ==
    [i \in DOMAIN stops |->
        [stop_id |-> stops[i].stop_id,
         stop_name |-> stops[i].stop_name,
         stop_lat |-> ToNumeric(stops[i].stop_lat),
         stop_lon |-> ToNumeric(stops[i].stop_lon)]]

\* st_filtered.merge(stops_df[...], on='stop_id', how='left') for one row:
\* an unknown stop gives NaN name, latitude and longitude
MergeStop(st_row) ==
    LET hit == {i \in DOMAIN stops : stops[i].stop_id = st_row.stop_id}
    IN  IF hit = {}
        THEN [trip_id |-> st_row.trip_id, stop_id |-> st_row.stop_id,
              stop_sequence |-> st_row.stop_sequence,
              stop_name |-> NaN, stop_lat |-> NaN, stop_lon |-> NaN]
        ELSE LET s == StopsNumeric[CHOOSE i \in hit : TRUE]
             IN  [trip_id |-> st_row.trip_id, stop_id |-> st_row.stop_id,
                  stop_sequence |-> st_row.stop_sequence,
                  stop_name |-> s.stop_name, stop_lat |-> s.stop_lat,
                  stop_lon |-> s.stop_lon]

\* the order of sort_values('stop_sequence')
SeqLess(rows) ==
    [i \in DOMAIN rows |-> [j \in DOMAIN rows |->
        rows[i].stop_sequence < rows[j].stop_sequence]]

\* st_geo[st_geo['trip_id'] == trip_id].sort_values('stop_sequence')
TripStops(trip_id) ==
    LET own == SelectIdx(stop_times,
                         {i \in DOMAIN stop_times : stop_times[i].trip_id = trip_id}, 1)
    IN  StableSort([i \in DOMAIN own |-> MergeStop(own[i])], SeqLess(own))

\* the rows that .dropna() on [stop_lon, stop_lat] keeps
HasCoords(r) == ~IsNa(r.stop_lat) /\ ~IsNa(r.stop_lon)

Retained(trip_stops) ==
    SelectIdx(trip_stops, {i \in DOMAIN trip_stops : HasCoords(trip_stops[i])}, 1)

\* a faulty variant of CoordOf: latitude first
CoordOfLatLon(r) == <<r.stop_lat.v, r.stop_lon.v>>

\* one coordinate pair: [stop_lon, stop_lat]
CoordOf(r) == <<r.stop_lon.v, r.stop_lat.v>>

\* trip_stops[['stop_lon', 'stop_lat']].dropna().values.tolist()
Coords(trip_stops) ==
    LET kept == Retained(trip_stops) IN [i \in DOMAIN kept |-> CoordOf(kept[i])]

\* a faulty variant of StopList: every visit is listed, a missing
\* coordinate as 0
StopListAllVisits(trip_stops) ==
    [i \in DOMAIN trip_stops |->
        [name |-> trip_stops[i].stop_name,
         lat |-> IF IsNa(trip_stops[i].stop_lat) THEN 0 ELSE trip_stops[i].stop_lat.v,
         lon |-> IF IsNa(trip_stops[i].stop_lon) THEN 0 ELSE trip_stops[i].stop_lon.v]]

\* the stop_list comprehension: the visits with pd.notna(stop_lat) and
\* pd.notna(stop_lon)
StopList(trip_stops) ==
    LET kept == Retained(trip_stops)
    IN  [i \in DOMAIN kept |->
            [name |-> kept[i].stop_name, lat |-> kept[i].stop_lat.v,
             lon |-> kept[i].stop_lon.v]]

\* the geometry stored under key (route_id, direction_id)
Geometry(row, trip_stops) ==
    [route_id |-> row.route_id,
     direction_id |-> row.direction_id,
     coords |-> Coords(trip_stops),
     stop_ids |-> {trip_stops[i].stop_id : i \in DOMAIN trip_stops},
     stop_list |-> StopList(trip_stops),
     start |-> trip_stops[1].stop_name,
     end |-> trip_stops[Len(trip_stops)].stop_name,
     count |-> Len(Coords(trip_stops))]

\* the loop over rep_trips: a trip without stop_times rows is skipped
build_route_geometries(rep) ==
    Flatten([i \in DOMAIN rep |->
        LET trip_stops == TripStops(rep[i].trip_id)
        IN  IF trip_stops = <<>> THEN <<>> ELSE <<Geometry(rep[i], trip_stops)>>])

-----------------------------------------------------------------------------
(* src/src/generators/interactive_map.py: _create_geojson_features *)

\* row.get(col): None when the table has no such column
RowGet(row, col) == IF col \in routes.cols THEN row[col] ELSE None

\* name = row.get('route_short_name') or row.get('route_long_name') or rid
RowName(row) ==
    LET short == RowGet(row, "route_short_name")
        long == RowGet(row, "route_long_name")
    IN  IF Truthy(short) THEN short
        ELSE IF Truthy(long) THEN long
        ELSE row.route_id

\* route_names.get(route_id, route_id), with route_names[rid] = str(name)
RouteName(route_id) ==
    LET hit == {i \in DOMAIN routes.rows : routes.rows[i].route_id = route_id}
    IN  IF hit = {} THEN Str(route_id)
        ELSE Str(RowName(routes.rows[CHOOSE i \in hit : \A j \in hit : j <= i]))

\* route_directions: the route ids in the order of their first geometry ...
RouteOrder(geoms) ==
    LET first == {i \in DOMAIN geoms :
                    \A j \in 1..(i - 1) : geoms[j].route_id # geoms[i].route_id}
        g == SelectIdx(geoms, first, 1)
    IN  [i \in DOMAIN g |-> g[i].route_id]

\* ... and, per route, its geometries in insertion order
Directions(geoms, route_id) ==
    SelectIdx(geoms, {i \in DOMAIN geoms : geoms[i].route_id = route_id}, 1)

HasDir(directions, dir_id) ==
    \E i \in DOMAIN directions : directions[i].direction_id = dir_id

Dir(directions, dir_id) ==
    directions[CHOOSE i \in DOMAIN directions : directions[i].direction_id = dir_id]

\* jaccard > MERGE_THRESHOLD, for a route with both '0' and '1'
Merged(directions) ==
    /\ HasDir(directions, D0)
    /\ HasDir(directions, D1)
    /\ FracGt(calculate_route_overlap(Dir(directions, D0).stop_ids,
                                      Dir(directions, D1).stop_ids),
              MERGE_THRESHOLD)

\* a faulty variant of MainDir: > for >=
MainDirStrict(directions) ==
    IF Dir(directions, D0).count > Dir(directions, D1).count THEN D0 ELSE D1

\* main_dir = '0' if directions['0']['count'] >= directions['1']['count'] else '1'
MainDir(directions) ==
    IF Dir(directions, D0).count >= Dir(directions, D1).count THEN D0 ELSE D1

BidirFeature(route_id, d) ==
    [id |-> <<route_id, "bidir">>,
     route_name |-> RouteName(route_id),
     search_text |-> RouteName(route_id) \o SUFFIX_BIDIR,
     desc |-> <<d.start, "<->", d.end>>,
     stops_count |-> d.count,
     stop_list |-> d.stop_list,
     type |-> "bidirectional",
     coordinates |-> d.coords]

OneWayFeature(route_id, d) ==
    [id |-> <<route_id, d.direction_id>>,
     route_name |-> RouteName(route_id),
     search_text |-> RouteName(route_id)
                     \o (IF d.direction_id = D0 THEN SUFFIX_OUTBOUND ELSE SUFFIX_INBOUND),
     desc |-> <<d.start, "->", d.end>>,
     stops_count |-> d.count,
     stop_list |-> d.stop_list,
     type |-> "one_way",
     coordinates |-> d.coords]

\* the body of the loop over route_directions
RouteFeatures(route_id, directions) ==
    IF Merged(directions)
    THEN <<BidirFeature(route_id, Dir(directions, MainDir(directions)))>>
    ELSE [i \in DOMAIN directions |-> OneWayFeature(route_id, directions[i])]

SearchTextLess(fs) ==
    [i \in DOMAIN fs |-> [j \in DOMAIN fs |->
        StrLess(fs[i].search_text, fs[j].search_text)]]

\* features.sort(key=lambda x: x['properties']['search_text'])
SortFeatures(fs) == StableSort(fs, SearchTextLess(fs))

create_geojson_features(geoms) ==
    LET order == RouteOrder(geoms)
    IN  SortFeatures(Flatten([i \in DOMAIN order |->
            RouteFeatures(order[i], Directions(geoms, order[i]))]))

-----------------------------------------------------------------------------
(* src/src/generators/network_map.py: _build_features *)

NetBidirFeature(route_id, d) ==
    [route_name |-> RouteName(route_id),
     search_key |-> RouteName(route_id) \o SUFFIX_BIDIR,
     details |-> <<d.start, "<->", d.end>>,
     stops |-> d.count,
     color |-> "#3388ff",
     coordinates |-> d.coords]

NetOneWayFeature(route_id, d) ==
    [route_name |-> RouteName(route_id),
     search_key |-> RouteName(route_id)
                    \o (IF d.direction_id = D0 THEN SUFFIX_OUTBOUND ELSE SUFFIX_INBOUND),
     details |-> <<d.start, "->", d.end>>,
     stops |-> d.count,
     color |-> IF d.direction_id = D0 THEN "#ff3333" ELSE "#33aa33",
     coordinates |-> d.coords]

NetRouteFeatures(route_id, directions) ==
    IF Merged(directions)
    THEN <<NetBidirFeature(route_id, Dir(directions, MainDir(directions)))>>
    ELSE [i \in DOMAIN directions |-> NetOneWayFeature(route_id, directions[i])]

\* route_directions is filled in rep_trips order and the features are
\* returned in the order the loop appended them
build_features(rep) ==
    LET geoms == build_route_geometries(rep)
        order == RouteOrder(geoms)
    IN  Flatten([i \in DOMAIN order |->
            NetRouteFeatures(order[i], Directions(geoms, order[i]))])

-----------------------------------------------------------------------------
(* The feeds the generators are run on *)

MaxTrips == 3

R1 == Txt(<<82, 49>>)    \* route_id "R1"
R2 == Txt(<<82, 50>>)    \* route_id "R2"
NAME_B == Txt(<<66>>)    \* "B"
NAME_a == Txt(<<97>>)    \* "a"
NAME_L == Txt(<<76>>)    \* "L"

StopIds == 1..10
StopNames == <<"S1", "S2", "S3", "S4", "S5", "S6", "S7", "S8", "S9", "S10">>

\* The stop_times rows of a trip, in file order.  "out" visits stops 1..6 and
\* "back" stops 10..4: they share 3 stops of 10.  "short" is written in the
\* file against its stop_sequence (it runs from stop 6 to stop 1) and
\* shares both its stops with "out"; "mid" visits stops 2..5.  "none" is a
\* trip without visits.
PatternNames == {"out", "back", "short", "mid"}

Pattern(name) ==
    CASE name = "none"  -> <<>>
      [] name = "out"   -> [i \in 1..6 |-> [stop_id |-> i, stop_sequence |-> i]]
      [] name = "back"  -> [i \in 1..7 |-> [stop_id |-> 11 - i, stop_sequence |-> i]]
      [] name = "short" -> <<[stop_id |-> 1, stop_sequence |-> 2],
                             [stop_id |-> 6, stop_sequence |-> 1]>>
      [] name = "mid"   -> [i \in 1..4 |-> [stop_id |-> i + 1, stop_sequence |-> i]]

\* What the stops table holds for a stop: both coordinates, a latitude that
\* is not a number, an empty longitude, or no row at all
StatusOptions(s) ==
    IF s = 1 THEN {"ok", "nolat", "unknown"}
    ELSE IF s = 6 THEN {"ok", "nolon"}
    ELSE {"ok"}

StopRow(s, status) ==
    [stop_id |-> s,
     stop_name |-> Txt(StopNames[s]),
     stop_lat |-> IF status = "nolat" THEN Txt("n/a") ELSE Num(100 + s),
     stop_lon |-> IF status = "nolon" THEN NaN ELSE Num(200 + s)]

StopsTable(status) ==
    Flatten([s \in StopIds |->
        IF status[s] = "unknown" THEN <<>> ELSE <<StopRow(s, status[s])>>])

StatusChoices ==
    {[s \in StopIds |-> IF s = 1 THEN a ELSE IF s = 6 THEN b ELSE "ok"] :
        a \in StatusOptions(1), b \in StatusOptions(6)}

AllOk == [s \in StopIds |-> "ok"]

TripsTable(plan) ==
    [i \in DOMAIN plan |->
        [trip_id |-> i, route_id |-> plan[i].route_id,
         direction_id |-> plan[i].direction_id]]

StopTimesTable(plan) ==
    Flatten([i \in DOMAIN plan |->
        LET rows == Pattern(plan[i].pattern)
        IN  [j \in DOMAIN rows |->
                [trip_id |-> i, stop_id |-> rows[j].stop_id,
                 stop_sequence |-> rows[j].stop_sequence]]])

AllCols == {"route_id", "route_short_name", "route_long_name"}

RouteRow(route_id, short, long) ==
    [route_id |-> route_id, route_short_name |-> short, route_long_name |-> long]

FixedRoutes == [cols |-> AllCols, rows |-> <<RouteRow(R1, NAME_B, NAME_L)>>]

\* One route, every trip table of up to MaxTrips trips with a direction
\* flag, stops with and without coordinates
GeometryFeeds ==
    {[plan |-> plan, status |-> status, routes |-> FixedRoutes] :
        plan \in UNION {[1..n -> [route_id : {R1}, direction_id : {D0, D1},
                                  pattern : PatternNames]] : n \in 1..MaxTrips},
        status \in StatusChoices}

\* One route, MaxTrips trips with or without direction flag, with or
\* without visits
DirectionFeeds ==
    {[plan |-> plan, status |-> AllOk, routes |-> FixedRoutes] :
        plan \in [1..MaxTrips -> [route_id : {R1}, direction_id : {D0, D1, NaN},
                                  pattern : {"out", "mid", "none"}]]}

\* Two routes, every routes table: columns present or not, rows present or
\* not, names given or empty
RouteRowOptions(cols, route_id) ==
    {<<>>} \cup
    {<<RouteRow(route_id, short, long)>> :
        short \in (IF "route_short_name" \in cols THEN {NaN, NAME_B, NAME_a} ELSE {None}),
        long \in (IF "route_long_name" \in cols THEN {NaN, NAME_L} ELSE {None})}

RoutesTables ==
    UNION {{[cols |-> cols, rows |-> r1 \o r2] :
                r1 \in RouteRowOptions(cols, R1), r2 \in RouteRowOptions(cols, R2)} :
           cols \in {c \in SUBSET AllCols : "route_id" \in c}}

NamePlans ==
    {<<[route_id |-> R1, direction_id |-> D0, pattern |-> "out"],
       [route_id |-> R1, direction_id |-> D1, pattern |-> "back"],
       [route_id |-> R2, direction_id |-> D0, pattern |-> "short"]>>,
     <<[route_id |-> R2, direction_id |-> D1, pattern |-> "short"],
       [route_id |-> R1, direction_id |-> NaN, pattern |-> "out"],
       [route_id |-> R1, direction_id |-> D1, pattern |-> "out"],
       [route_id |-> R2, direction_id |-> D0, pattern |-> "none"]>>}

NameFeeds ==
    {[plan |-> plan, status |-> AllOk, routes |-> rt] :
        plan \in NamePlans, rt \in RoutesTables}

Feeds == GeometryFeeds \cup DirectionFeeds \cup NameFeeds

-----------------------------------------------------------------------------
(* The state machine *)

Init ==
    /\ \E feed \in Feeds :
        /\ stops = StopsTable(feed.status)
        /\ stop_times = StopTimesTable(feed.plan)
        /\ trips = TripsTable(feed.plan)
        /\ routes = feed.routes
    /\ rep_trips = <<>>
    /\ geometries = <<>>
    /\ features = <<>>
    /\ DATA = <<>>
    /\ originLoc = <<>>
    /\ destLoc = <<>>
    /\ candidates = <<>>
    /\ results = <<>>
    /\ alert = "none"
    /\ setA = {}
    /\ setB = {}
    /\ overlap = None
    /\ disk = <<>>
    /\ cache = <<>>
    /\ reads = 0
    /\ call = <<>>
    /\ pc = "loaded"

\* InteractiveMapGenerator.generate(), up to the feature list
InteractiveGenerate ==
    /\ pc = "loaded"
    /\ \E rep \in get_representative_trips(trips, stop_times) :
        /\ rep_trips' = rep
        /\ geometries' = build_route_geometries(rep)
        /\ features' = create_geojson_features(build_route_geometries(rep))
    /\ pc' = "interactive"
    /\ UNCHANGED <<loaderVars, geoVars, feedVars, planVars>>

\* NetworkMapGenerator.generate(), up to the feature list
NetworkGenerate ==
    /\ pc = "loaded"
    /\ \E rep \in get_representative_trips(trips, stop_times) :
        /\ rep_trips' = rep
        /\ geometries' = build_route_geometries(rep)
        /\ features' = build_features(rep)
    /\ pc' = "network"
    /\ UNCHANGED <<loaderVars, geoVars, feedVars, planVars>>

Next == InteractiveGenerate \/ NetworkGenerate

Spec == Init /\ [][Next]_vars

-----------------------------------------------------------------------------
(* What the properties speak of, read off the feed and the results *)

Generated == pc \in {"interactive", "network"}

RouteIds == {R1, R2}

\* the visits of a trip in stop_times, by sequence number
VisitsOf(trip_id) ==
    LET own == SelectIdx(stop_times,
                         {i \in DOMAIN stop_times : stop_times[i].trip_id = trip_id}, 1)
    IN  StableSort(own, SeqLess(own))

\* the stops row of a visit's stop has a number for latitude and for longitude
VisitHasCoordinate(v) ==
    \E i \in DOMAIN stops :
        /\ stops[i].stop_id = v.stop_id
        /\ stops[i].stop_lat.k = "num"
        /\ stops[i].stop_lon.k = "num"

\* (longitude, latitude) of the visits that have a coordinate, in visit order
ExpectedCoords(trip_id) ==
    LET vs == VisitsOf(trip_id)
        kept == SelectIdx(vs, {i \in DOMAIN vs : VisitHasCoordinate(vs[i])}, 1)
    IN  [i \in DOMAIN kept |->
            LET row == stops[CHOOSE j \in DOMAIN stops : stops[j].stop_id = kept[i].stop_id]
            IN  <<row.stop_lon.v, row.stop_lat.v>>]

\* the geometries of a route, and the one of a direction
GeomDirs(r) == {geometries[i].direction_id :
                    i \in {j \in DOMAIN geometries : geometries[j].route_id = r}}

Geom(r, d) ==
    geometries[CHOOSE i \in DOMAIN geometries :
                    geometries[i].route_id = r /\ geometries[i].direction_id = d]

BothDirs(r) == D0 \in GeomDirs(r) /\ D1 \in GeomDirs(r)

Shared(r) == Cardinality(Geom(r, D0).stop_ids \cap Geom(r, D1).stop_ids)
Either(r) == Cardinality(Geom(r, D0).stop_ids \cup Geom(r, D1).stop_ids)

\* |A n B| / |A u B| > 0.3
OverThreshold(r) == BothDirs(r) /\ 10 * Shared(r) > 3 * Either(r)

ExpectedFeatureCount(r) ==
    IF OverThreshold(r) THEN 1 ELSE Cardinality(GeomDirs(r))

\* the features of a route (the interactive map's features carry the route id)
FeaturesOf(r) == {i \in DOMAIN features : features[i].id[1] = r}

\* the representative trip of a (route, direction) pair
RepTrip(r, d) ==
    rep_trips[CHOOSE i \in DOMAIN rep_trips :
                    rep_trips[i].route_id = r /\ rep_trips[i].direction_id = d]

-----------------------------------------------------------------------------
(* C1 *)

\* C1: a route with geometries for both directions gives exactly one feature
\* when the overlap of the two stop-id sets is over 0.3, and otherwise (an
\* overlap of exactly 0.3 included) one feature per direction present; a
\* route with one direction gives one feature.  The network map's features
\* carry no route id: there the total is the sum over the routes.
C1_FeatureCount ==
    /\ pc = "interactive" =>
        \A r \in RouteIds : Cardinality(FeaturesOf(r)) = ExpectedFeatureCount(r)
    /\ pc = "network" =>
        Len(features) = ExpectedFeatureCount(R1) + ExpectedFeatureCount(R2)

\* both directions present, 3 shared stops of 10: two features
C1_Witness ==
    /\ pc = "interactive"
    /\ BothDirs(R1)
    /\ Shared(R1) = 3
    /\ Either(R1) = 10
    /\ Cardinality(FeaturesOf(R1)) = 2

-----------------------------------------------------------------------------
(* C2 *)

\* the number of visits of the direction's representative trip that have a
\* coordinate
RetainedCount(r, d) == Len(ExpectedCoords(RepTrip(r, d).trip_id))

\* the number of visits (stop_times rows) of the direction's representative trip
VisitCount(r, d) == TripCount(stop_times, RepTrip(r, d).trip_id)

FeatureTakenFrom(f, g) ==
    /\ f.coordinates = g.coords
    /\ f.stop_list = g.stop_list
    /\ f.stops_count = g.count
    /\ f.desc = <<g.start, "<->", g.end>>

\* C2 as stated: the merged feature is taken from the direction with the
\* larger number of stop visits, direction 0 on a tie
C2_MainByVisitCount ==
    pc = "interactive" =>
        \A r \in RouteIds : OverThreshold(r) =>
            \A i \in FeaturesOf(r) :
                FeatureTakenFrom(features[i],
                    Geom(r, IF VisitCount(r, D0) >= VisitCount(r, D1) THEN D0 ELSE D1))

\* C2 (amended): the merged feature takes its coordinates, stop list, stop
\* count and start/end description from one direction: the one with the
\* larger number of visits that have a coordinate, direction 0 on a tie.
C2_MainByRetainedCount ==
    pc = "interactive" =>
        \A r \in RouteIds : OverThreshold(r) =>
            \A i \in FeaturesOf(r) :
                FeatureTakenFrom(features[i],
                    Geom(r, IF RetainedCount(r, D0) >= RetainedCount(r, D1) THEN D0 ELSE D1))

\* a merged route whose two directions have as many coordinates, but not
\* the same first stop
C2_Witness ==
    /\ pc = "interactive"
    /\ OverThreshold(R1)
    /\ RetainedCount(R1, D0) = RetainedCount(R1, D1)
    /\ Geom(R1, D0).start # Geom(R1, D1).start
    /\ Cardinality(FeaturesOf(R1)) = 1

-----------------------------------------------------------------------------
(* C3 *)

\* C3: the representative trips hold at most one trip per (route id,
\* direction flag) pair, a missing flag counting as "0", and the trip of a
\* pair has at least as many visits as every trip of the feed with that pair.
C3_Representative ==
    Generated =>
        /\ \A i, j \in DOMAIN rep_trips :
                (rep_trips[i].route_id = rep_trips[j].route_id
                 /\ rep_trips[i].direction_id = rep_trips[j].direction_id) => i = j
        /\ \A i \in DOMAIN rep_trips : \E k \in DOMAIN trips :
                /\ trips[k].trip_id = rep_trips[i].trip_id
                /\ trips[k].route_id = rep_trips[i].route_id
                /\ FillNa(trips[k].direction_id, D0) = rep_trips[i].direction_id
        /\ \A i \in DOMAIN rep_trips : \A k \in DOMAIN trips :
                (trips[k].route_id = rep_trips[i].route_id
                 /\ FillNa(trips[k].direction_id, D0) = rep_trips[i].direction_id)
                => TripCount(stop_times, rep_trips[i].trip_id)
                        >= TripCount(stop_times, trips[k].trip_id)

\* a trip without direction flag is chosen over a shorter trip of direction "0"
C3_Witness ==
    /\ Generated
    /\ \E i \in DOMAIN rep_trips : \E k, m \in DOMAIN trips :
        /\ trips[k].trip_id = rep_trips[i].trip_id
        /\ IsNa(trips[k].direction_id)
        /\ trips[m].route_id = trips[k].route_id
        /\ trips[m].direction_id = D0
        /\ TripCount(stop_times, trips[m].trip_id) < TripCount(stop_times, trips[k].trip_id)

-----------------------------------------------------------------------------
(* C4 *)

\* C4: a representative trip whose every visit lacks a coordinate gives no
\* feature: no feature has an empty coordinate list.
C4_NoEmptyFeature ==
    Generated => \A i \in DOMAIN features : features[i].coordinates # <<>>

-----------------------------------------------------------------------------
(* C5 *)

\* C5: the coordinate list of every feature is exactly the visits of a
\* representative trip (of the feature's route, for the interactive map)
\* that have a latitude and a longitude, each as (longitude, latitude), in
\* visit order.
C5_Coordinates ==
    Generated =>
        \A i \in DOMAIN features : \E k \in DOMAIN rep_trips :
            /\ features[i].coordinates = ExpectedCoords(rep_trips[k].trip_id)
            /\ pc = "interactive" => features[i].id[1] = rep_trips[k].route_id

\* a feature of a trip that lost a visit and kept others
C5_Witness ==
    /\ Generated
    /\ \E i \in DOMAIN features : \E k \in DOMAIN rep_trips :
        /\ features[i].coordinates = ExpectedCoords(rep_trips[k].trip_id)
        /\ features[i].coordinates # <<>>
        /\ Len(features[i].coordinates) < TripCount(stop_times, rep_trips[k].trip_id)

-----------------------------------------------------------------------------
(* C6 *)

Label(f) == IF pc = "interactive" THEN f.search_text ELSE f.search_key

-----------------------------------------------------------------------------
(* C7 *)

NamePresent(c) == c.k = "str" /\ c.v # <<>>

\* short name when present, else long name when present, else the route id
DisplayName(route_id) ==
    LET hit == {i \in DOMAIN routes.rows : routes.rows[i].route_id = route_id}
    IN  IF hit = {} THEN route_id.v
        ELSE LET row == routes.rows[CHOOSE i \in hit : TRUE]
                 short == RowGet(row, "route_short_name")
                 long == RowGet(row, "route_long_name")
             IN  IF NamePresent(short) THEN short.v
                 ELSE IF NamePresent(long) THEN long.v
                 ELSE route_id.v

\* C7: every feature is named by its route's short name when present, else
\* the long name when present, else the route id.
C7_DisplayName ==
    pc = "interactive" =>
        \A i \in DOMAIN features : features[i].route_name = DisplayName(features[i].id[1])

-----------------------------------------------------------------------------
(* The journey planner: src/old_scripts/gtfs_trip_planner.py.               *)
(* Its tables are read as text: a stop name is the sequence of its words,  *)
(* a time is Txt of its ':'-separated fields, each Num(n) when int() reads *)
(* it and Txt otherwise.  Positions in a route are 0-based, as in the       *)
(* page's script.                                                           *)

\* "Twd" under re.IGNORECASE
TWD == {"Twd", "twd", "TWD", "TWd", "TwD", "tWD", "tWd", "twD"}

\* a faulty variant of extract_base_name: the name is cut at its last "Twd"
extract_base_name_greedy(stop_name) ==
    LET cut == {i \in 2..(Len(stop_name) - 1) : stop_name[i] \in TWD}
    IN  IF cut = {} THEN stop_name
        ELSE SubSeq(stop_name, 1, (CHOOSE i \in cut : \A j \in cut : i >= j) - 1)

\* extract_base_name: ^(.+?)\s+Twd\s+.+$ keeps what precedes the first "Twd"
\* that has a word before it and a word after it; otherwise the whole name
extract_base_name(stop_name) ==
    LET cut == {i \in 2..(Len(stop_name) - 1) : stop_name[i] \in TWD}
    IN  IF cut = {} THEN stop_name
        ELSE SubSeq(stop_name, 1, (CHOOSE i \in cut : \A j \in cut : i <= j) - 1)

\* the last row of a table whose column col holds key (a dict keeps the
\* last value written under a key)
LastRow(table, col, key) ==
    table[CHOOSE i \in DOMAIN table :
            /\ table[i][col] = key
            /\ \A j \in DOMAIN table : table[j][col] = key => j <= i]

\* stop_base_names: stop_id -> base name
stop_base_names ==
    [sid \in {stops[i].stop_id : i \in DOMAIN stops} |->
        extract_base_name(LastRow(stops, "stop_id", sid).stop_name.v)]

\* location_stops: base name -> stop ids, in the order of the stops table
location_stops(base_names) ==
    [loc \in Range(base_names) |->
        LET ids == [i \in DOMAIN stops |-> stops[i].stop_id]
        IN  SelectIdx(ids, {i \in DOMAIN ids :
                /\ base_names[ids[i]] = loc
                /\ \A j \in 1..(i - 1) : ids[j] # ids[i]}, 1)]

\* trip_to_route: trip_id -> route_id
trip_to_route ==
    [tid \in {trips[i].trip_id : i \in DOMAIN trips} |->
        LastRow(trips, "trip_id", tid).route_id]

\* stop_times.groupby('trip_id').size()
trip_stop_counts ==
    [tid \in {stop_times[i].trip_id : i \in DOMAIN stop_times} |->
        Cardinality({i \in DOMAIN stop_times : stop_times[i].trip_id = tid})]

\* the trips of a route that the loop over trip_stop_counts meets
CountedTrips(to_route, counts, rid) ==
    {tid \in DOMAIN counts : tid \in DOMAIN to_route /\ to_route[tid] = rid}

\* a faulty variant of route_rep_trips: the first trip of the route stays
route_rep_trips_first(to_route, counts) ==
    [rid \in {r \in Range(to_route) : CountedTrips(to_route, counts, r) # {}} |->
        LET own == CountedTrips(to_route, counts, rid)
        IN  CHOOSE tid \in own : \A u \in own : tid <= u]

\* route_rep_trips: the loop runs in trip_id order and replaces the entry
\* only on a strictly greater count, so the first trip with the greatest
\* count stays
route_rep_trips(to_route, counts) ==
    [rid \in {r \in Range(to_route) : CountedTrips(to_route, counts, r) # {}} |->
        LET own == CountedTrips(to_route, counts, rid)
        IN  CHOOSE tid \in own :
                \A u \in own : \/ counts[u] < counts[tid]
                               \/ (counts[u] = counts[tid] /\ tid <= u)]

\* the order of sort_values('stop_sequence') once pd.to_numeric has
\* coerced the column: the cells that are no number go last
NumericSeqLess(rows) ==
    [i \in DOMAIN rows |-> [j \in DOMAIN rows |->
        LET a == ToNumeric(rows[i].stop_sequence)
            b == ToNumeric(rows[j].stop_sequence)
        IN  a.k = "num" /\ (b.k # "num" \/ a.v < b.v)]]

\* stop_times[stop_times['trip_id'] == tid].sort_values('stop_sequence')
trip_st(tid) ==
    LET own == SelectIdx(stop_times,
                         {i \in DOMAIN stop_times : stop_times[i].trip_id = tid}, 1)
    IN  StableSort(own, NumericSeqLess(own))

\* 'seq': int(row['stop_sequence']) raises ValueError on a coerced cell of
\* a representative trip, and nothing on the way up to main() catches it
SeqRaises(rep_of) ==
    \E rid \in DOMAIN rep_of :
        LET st == trip_st(rep_of[rid])
        IN  \E i \in DOMAIN st : ToNumeric(st[i].stop_sequence).k # "num"

\* route_stops: route_id -> the stop ids of its representative trip
route_stops(rep_of) ==
    [rid \in DOMAIN rep_of |->
        LET st == trip_st(rep_of[rid])
        IN  [i \in DOMAIN st |-> st[i].stop_id]]

FALLBACK_MINUTES == 3    \* a segment without usable times
MIN_MINUTES == 1
MAX_MINUTES == 30

\* time_to_minutes: int(parts[0]) * 60 + int(parts[1]), None when the cell
\* is not a string, has fewer than two fields or a field int() rejects
time_to_minutes(t) ==
    IF t.k # "str" THEN None
    ELSE IF Len(t.v) < 2 THEN None
    ELSE IF t.v[1].k # "num" \/ t.v[2].k # "num" THEN None
    ELSE Num(t.v[1].v * 60 + t.v[2].v)

\* a faulty variant of SegmentMinutes: an arrival before the departure is
\* clamped like any other gap
SegmentMinutesClampOnly(dep, arr) ==
    LET t1 == time_to_minutes(dep)
        t2 == time_to_minutes(arr)
    IN  IF t1.k # "none" /\ t2.k # "none"
        THEN Max(MIN_MINUTES, Min(t2.v - t1.v, MAX_MINUTES))
        ELSE FALLBACK_MINUTES

\* one entry of durations: departure of a visit to arrival at the next
SegmentMinutes(dep, arr) ==
    LET t1 == time_to_minutes(dep)
        t2 == time_to_minutes(arr)
    IN  IF t1.k # "none" /\ t2.k # "none"
        THEN LET diff == IF t2.v - t1.v < 0 THEN FALLBACK_MINUTES ELSE t2.v - t1.v
             IN  Max(MIN_MINUTES, Min(diff, MAX_MINUTES))
        ELSE FALLBACK_MINUTES

\* route_travel_times: route_id -> minutes of each segment of the
\* representative trip
route_travel_times(rep_of) ==
    [rid \in DOMAIN rep_of |->
        LET times == trip_st(rep_of[rid])
        IN  [i \in 1..(Len(times) - 1) |->
                SegmentMinutes(times[i].departure_time, times[i + 1].arrival_time)]]

\* list(a set of route ids).  Python fixes no order for it: the lists
\* follow one arbitrary order of the route ids, chosen when the indices
\* are built.
ListOf(S, order) == SelectIdx(order, {i \in DOMAIN order : order[i] \in S}, 1)

RouteOrders ==
    LET S == DOMAIN route_rep_trips(trip_to_route, trip_stop_counts)
    IN  {o \in [1..Cardinality(S) -> S] : \A i, j \in DOMAIN o : o[i] = o[j] => i = j}

\* stop_routes: stop_id -> the routes whose sequence holds the stop
stop_routes(stops_of, order) ==
    [sid \in UNION {Range(stops_of[rid]) : rid \in DOMAIN stops_of} |->
        ListOf({rid \in DOMAIN stops_of : sid \in Range(stops_of[rid])}, order)]

\* a faulty variant of location_routes: only the first stop of a place counts
location_routes_first_stop(at_loc, stops_of, order) ==
    [loc \in DOMAIN at_loc |->
        ListOf({rid \in DOMAIN stops_of : at_loc[loc][1] \in Range(stops_of[rid])}, order)]

\* location_routes: place -> the routes that serve any of its stops
location_routes(at_loc, stops_of, order) ==
    [loc \in DOMAIN at_loc |->
        ListOf({rid \in DOMAIN stops_of :
                    Range(stops_of[rid]) \cap Range(at_loc[loc]) # {}}, order)]

\* float(cell) of a stops cell read as text: a number parses, an empty
\* cell is the float nan, any other text raises ValueError
FloatOk(c) == c.k \in {"num", "nan"}

\* stop_coords: the stops for which both float() calls succeed, with the
\* cells they are read from
stop_coords ==
    [sid \in {stops[i].stop_id : i \in {j \in DOMAIN stops :
                    FloatOk(stops[j].stop_lat) /\ FloatOk(stops[j].stop_lon)}} |->
        <<LastRow(stops, "stop_id", sid).stop_lat, LastRow(stops, "stop_id", sid).stop_lon>>]

\* location_coords: the places with at least one stop in stop_coords; the
\* value kept here is the list of coordinates whose mean the code stores
location_coords(at_loc, coords) ==
    [loc \in {l \in DOMAIN at_loc : Range(at_loc[l]) \cap DOMAIN coords # {}} |->
        LET sids == at_loc[loc]
        IN  [i \in DOMAIN SelectIdx(sids, {j \in DOMAIN sids : sids[j] \in DOMAIN coords}, 1) |->
                coords[SelectIdx(sids, {j \in DOMAIN sids : sids[j] \in DOMAIN coords}, 1)[i]]]]

\* build_indices: what the page receives as DATA
build_indices(order) ==
    LET base_names == stop_base_names
        at_loc == location_stops(base_names)
        rep_of == route_rep_trips(trip_to_route, trip_stop_counts)
        stops_of == route_stops(rep_of)
    IN  [stopBaseNames |-> base_names,
         locationStops |-> at_loc,
         locationCoords |-> location_coords(at_loc, stop_coords),
         locationRoutes |-> location_routes(at_loc, stops_of, order),
         routeStops |-> stops_of,
         stopRoutes |-> stop_routes(stops_of, order),
         routeTravelTimes |-> route_travel_times(rep_of)]

-----------------------------------------------------------------------------
(* The search of the generated page: findRoutesRaptor *)

SEGMENT_DEFAULT == 3     \* travelTimes[i] || 3
DIRECT_ENOUGH == 3       \* transfers are searched while results.length < 3
TRANSFER_WINDOW == 20    \* i < Math.min(stops1.length, originIdx1 + 20)
TRANSFER_PENALTY == 5    \* dur1 + 5 + dur2
MAX_RESULTS == 5         \* unique.length >= 5
DASH == 45               \* '-'

\* array[i] of the script, i counted from 0
At(s, i) == s[i + 1]

\* DATA.x[key] || []
Lookup(dict, key) == IF key \in DOMAIN dict THEN dict[key] ELSE <<>>

getStopsAtLocation(data, locationName) == Lookup(data.locationStops, locationName)

\* the first position from `from` on whose stop is in S, or -1
FirstIdx(s, S, from) ==
    LET hit == {i \in from..(Len(s) - 1) : At(s, i) \in S}
    IN  IF hit = {} THEN -1 ELSE CHOOSE i \in hit : \A j \in hit : i <= j

\* a faulty variant of SumTimes: the segment at b is added too
RECURSIVE SumTimesInclusive(_, _, _)
SumTimesInclusive(times, a, b) ==
    IF a > b THEN 0
    ELSE (IF a < Len(times) /\ At(times, a) # 0 THEN At(times, a) ELSE SEGMENT_DEFAULT)
         + SumTimesInclusive(times, a + 1, b)

\* times[j] || 3, summed over j in [a, b)
RECURSIVE SumTimes(_, _, _)
SumTimes(times, a, b) ==
    IF a >= b THEN 0
    ELSE (IF a < Len(times) /\ At(times, a) # 0 THEN At(times, a) ELSE SEGMENT_DEFAULT)
         + SumTimes(times, a + 1, b)

\* the first destination stop after the origin position
DirectDestIdxFirst(s, destStops, originIdx) ==
    IF originIdx < 0 THEN -1 ELSE FirstIdx(s, destStops, originIdx + 1)

\* destIdx of the direct scan: it is assigned at every destination stop
\* met after the origin position, so the last one stays
DirectDestIdx(s, destStops, originIdx) ==
    LET hit == {i \in 0..(Len(s) - 1) :
                    At(s, i) \in destStops /\ i > originIdx /\ originIdx >= 0}
    IN  IF hit = {} THEN -1 ELSE CHOOSE i \in hit : \A j \in hit : i >= j

\* a faulty variant of DirectResult: the destination stop may come before
\* the origin stop
DirectResultAnyOrder(data, routeId, originStops, destStops) ==
    LET s == data.routeStops[routeId]
        originIdx == FirstIdx(s, originStops, 0)
        destIdx == FirstIdx(s, destStops, 0)
    IN  IF originIdx >= 0 /\ destIdx >= 0 /\ destIdx # originIdx
        THEN <<[type |-> "direct",
                routes |-> <<routeId>>,
                segments |-> <<[routeId |-> routeId, startIdx |-> originIdx,
                                endIdx |-> destIdx]>>,
                transfers |-> 0,
                duration |-> SumTimes(Lookup(data.routeTravelTimes, routeId),
                                      originIdx, destIdx),
                stopCount |-> destIdx - originIdx + 1,
                originStopId |-> At(s, originIdx),
                destStopId |-> At(s, destIdx)]>>
        ELSE <<>>

\* what the direct loop pushes for routeId: one itinerary or nothing
DirectResult(data, routeId, originStops, destStops) ==
    LET s == data.routeStops[routeId]
        originIdx == FirstIdx(s, originStops, 0)
        destIdx == DirectDestIdx(s, destStops, originIdx)
    IN  IF originIdx >= 0 /\ destIdx > originIdx
        THEN <<[type |-> "direct",
                routes |-> <<routeId>>,
                segments |-> <<[routeId |-> routeId, startIdx |-> originIdx,
                                endIdx |-> destIdx]>>,
                transfers |-> 0,
                duration |-> SumTimes(Lookup(data.routeTravelTimes, routeId),
                                      originIdx, destIdx),
                stopCount |-> destIdx - originIdx + 1,
                originStopId |-> At(s, originIdx),
                destStopId |-> At(s, destIdx)]>>
        ELSE <<>>

\* the direct itineraries, in the order of originRoutes
DirectResults(data, origin, dest) ==
    LET originStops == Range(getStopsAtLocation(data, origin))
        destStops == Range(getStopsAtLocation(data, dest))
        originRoutes == Lookup(data.locationRoutes, origin)
        destRoutes == Range(Lookup(data.locationRoutes, dest))
        directRoutes == SelectIdx(originRoutes,
                            {i \in DOMAIN originRoutes : originRoutes[i] \in destRoutes}, 1)
    IN  Flatten([k \in DOMAIN directRoutes |->
            DirectResult(data, directRoutes[k], originStops, destStops)])

\* a faulty variant of TransferDuration: the change costs nothing
TransferDurationNoPenalty(dur1, dur2) == dur1 + dur2

\* duration: dur1 + 5 + dur2
TransferDuration(dur1, dur2) == dur1 + TRANSFER_PENALTY + dur2

\* what the innermost loop pushes for route1, transfer position i and route2
TransferResult(data, route1, originIdx1, i, route2, destStops, destRoutes) ==
    LET stops1 == Lookup(data.routeStops, route1)
        transferStopId == At(stops1, i)
        stops2 == Lookup(data.routeStops, route2)
        transferIdx2 == FirstIdx(stops2, {transferStopId}, 0)     \* indexOf
        destIdx2 == FirstIdx(stops2, destStops, transferIdx2 + 1)
    IN  IF route2 = route1 \/ route2 \notin destRoutes THEN <<>>
        ELSE IF transferIdx2 >= 0 /\ destIdx2 > transferIdx2
        THEN <<[type |-> "transfer",
                routes |-> <<route1, route2>>,
                segments |-> <<[routeId |-> route1, startIdx |-> originIdx1,
                                endIdx |-> i],
                               [routeId |-> route2, startIdx |-> transferIdx2,
                                endIdx |-> destIdx2]>>,
                transfers |-> 1,
                duration |-> TransferDuration(
                                SumTimes(Lookup(data.routeTravelTimes, route1), originIdx1, i),
                                SumTimes(Lookup(data.routeTravelTimes, route2),
                                         transferIdx2, destIdx2)),
                transferLoc |-> data.stopBaseNames[transferStopId],
                transferStopId |-> transferStopId,
                originStopId |-> At(stops1, originIdx1),
                destStopId |-> At(stops2, destIdx2)]>>
        ELSE <<>>

\* a faulty variant of TransfersFrom: the scan begins at the origin stop
TransfersFromOrigin(data, route1, originStops, destStops, destRoutes) ==
    LET stops1 == Lookup(data.routeStops, route1)
        originIdx1 == FirstIdx(stops1, originStops, 0)
        last == Min(Len(stops1), originIdx1 + TRANSFER_WINDOW) - 1
    IN  IF originIdx1 < 0 THEN <<>>
        ELSE Flatten([n \in 1..(last - originIdx1 + 1) |->
                LET i == originIdx1 + n - 1
                    transferRoutes == Lookup(data.stopRoutes, At(stops1, i))
                IN  Flatten([m \in DOMAIN transferRoutes |->
                        TransferResult(data, route1, originIdx1, i, transferRoutes[m],
                                       destStops, destRoutes)])])

\* the one-transfer itineraries that start on route1
TransfersFrom(data, route1, originStops, destStops, destRoutes) ==
    LET stops1 == Lookup(data.routeStops, route1)
        originIdx1 == FirstIdx(stops1, originStops, 0)
        last == Min(Len(stops1), originIdx1 + TRANSFER_WINDOW) - 1
    IN  IF originIdx1 < 0 THEN <<>>
        ELSE Flatten([n \in 1..(last - originIdx1) |->
                LET i == originIdx1 + n
                    transferRoutes == Lookup(data.stopRoutes, At(stops1, i))
                IN  Flatten([m \in DOMAIN transferRoutes |->
                        TransferResult(data, route1, originIdx1, i, transferRoutes[m],
                                       destStops, destRoutes)])])

\* the one-transfer itineraries, in the order of originRoutes
TransferResults(data, origin, dest) ==
    LET originStops == Range(getStopsAtLocation(data, origin))
        destStops == Range(getStopsAtLocation(data, dest))
        originRoutes == Lookup(data.locationRoutes, origin)
        destRoutes == Range(Lookup(data.locationRoutes, dest))
    IN  Flatten([k \in DOMAIN originRoutes |->
            TransfersFrom(data, originRoutes[k], originStops, destStops, destRoutes)])

\* a faulty variant of Candidates: transfers are searched however many
\* direct itineraries were found
CandidatesWithTransfers(data, origin, dest) ==
    IF getStopsAtLocation(data, origin) = <<>> \/ getStopsAtLocation(data, dest) = <<>>
    THEN <<>>
    ELSE DirectResults(data, origin, dest) \o TransferResults(data, origin, dest)

\* the results array when the script reaches "Sort and dedupe"
Candidates(data, origin, dest) ==
    LET direct == DirectResults(data, origin, dest)
    IN  IF getStopsAtLocation(data, origin) = <<>> \/ getStopsAtLocation(data, dest) = <<>>
        THEN <<>>
        ELSE IF Len(direct) < DIRECT_ENOUGH
        THEN direct \o TransferResults(data, origin, dest)
        ELSE direct

\* the comparator a.duration - b.duration || a.transfers - b.transfers
RankLess(rs) ==
    [i \in DOMAIN rs |-> [j \in DOMAIN rs |->
        \/ rs[i].duration < rs[j].duration
        \/ (rs[i].duration = rs[j].duration /\ rs[i].transfers < rs[j].transfers)]]

\* a faulty variant of SortResults: the list is left as it was built
SortResultsNone(rs) == rs

\* Array.prototype.sort is stable
SortResults(rs) == StableSort(rs, RankLess(rs))

\* routes.join('-') on the code points of the route ids
RECURSIVE Join(_)
Join(ids) ==
    IF ids = <<>> THEN <<>>
    ELSE IF Len(ids) = 1 THEN ids[1].v
    ELSE ids[1].v \o <<DASH>> \o Join(Tail(ids))

Key(r) == Join(r.routes)

\* the first MAX_RESULTS entries of a list
Truncate(rs) == SubSeq(rs, 1, Min(Len(rs), MAX_RESULTS))

\* keeps everything, whatever its key
UniqueKeepAll(sorted) == Truncate(sorted)

\* the dedupe loop: the first entry of each key, until MAX_RESULTS are kept
Unique(sorted) ==
    Truncate(SelectIdx(sorted, {i \in DOMAIN sorted :
                \A j \in 1..(i - 1) : Key(sorted[j]) # Key(sorted[i])}, 1))

findRoutesRaptor(data, origin, dest) == Unique(SortResults(Candidates(data, origin, dest)))

-----------------------------------------------------------------------------
(* The feeds the planner is built on *)

RouteA == Txt(<<65>>)    \* route_id "A"
RouteB == Txt(<<66>>)    \* route_id "B"
RouteC == Txt(<<67>>)    \* route_id "C"
PlannerRoutes == <<RouteA, RouteB, RouteC>>
RouteAB == Txt(<<65, DASH, 66>>)    \* route_id "A-B", run by the service "dash"

\* Stops x1, x2 form place X and y1, y2 place Y; z1, t1 and each filler
\* stop are places of their own.  No route serves w1, w2, w3, whose names
\* begin with "Twd", end with it and hold it twice.
Fillers == <<"f1", "f2", "f3", "f4", "f5", "f6", "f7", "f8", "f9", "f10", "f11", "f12", "f13", "f14", "f15", "f16", "f17", "f18", "f19", "f20">>

PlaceX == <<"X">>
PlaceY == <<"Y">>
PlaceZ == <<"Z">>
PlaceT == <<"T">>
Nowhere == <<"Nowhere">>     \* a place no stop belongs to

PlannerStopNames ==
    <<[stop_id |-> "x1", stop_name |-> <<"X", "Twd", "N">>],
      [stop_id |-> "x2", stop_name |-> <<"X", "TWD", "S">>],
      [stop_id |-> "y1", stop_name |-> <<"Y">>],
      [stop_id |-> "y2", stop_name |-> <<"Y", "twd", "N">>],
      [stop_id |-> "z1", stop_name |-> <<"Z">>],
      [stop_id |-> "t1", stop_name |-> <<"T">>],
      [stop_id |-> "w1", stop_name |-> <<"Twd", "W">>],
      [stop_id |-> "w2", stop_name |-> <<"W", "Twd">>],
      [stop_id |-> "w3", stop_name |-> <<"W", "Twd", "U", "Twd", "V">>]>>
    \o [i \in DOMAIN Fillers |-> [stop_id |-> Fillers[i], stop_name |-> <<Fillers[i]>>]]

PlannerStopsTable ==
    [i \in DOMAIN PlannerStopNames |->
        [stop_id |-> PlannerStopNames[i].stop_id,
         stop_name |-> Txt(PlannerStopNames[i].stop_name),
         stop_lat |-> Num(100 + i), stop_lon |-> Num(200 + i)]]

\* a route whose stop z1 lies k stops after x1, followed by one more stop
Far(k) == <<"x1">> \o SubSeq(Fillers, 1, k - 1) \o <<"z1", Fillers[k]>>

\* The representative trip a route can have: its stops in order, and the
\* minutes between consecutive visits in its timetable (0: the timetable
\* has no times).  "none" is a route without trips.
Service(name) ==
    CASE name = "none"  -> [stops |-> <<>>, gap |-> 0]
      [] name = "xtzy"  -> [stops |-> <<"x1", "t1", "z1", "y1">>, gap |-> 2]
      [] name = "xty"   -> [stops |-> <<"x2", "t1", "y2">>, gap |-> 7]
      [] name = "xyxy"  -> [stops |-> <<"x1", "y1", "x2", "y2">>, gap |-> 0]
      [] name = "tzy"   -> [stops |-> <<"t1", "z1", "y1">>, gap |-> 3]
      [] name = "loop"  -> [stops |-> <<"t1", "y1", "x1", "t1">>, gap |-> 2]
      [] name = "dash"  -> [stops |-> <<"x2", "t1", "y2">>, gap |-> 2]
      [] name = "odd"   -> [stops |-> <<"f1", "f2", "x1", "f3", "t1", "f4", "f5", "y1">>,
                            gap |-> 0]
      [] name = "badseq" -> [stops |-> <<"x1", "t1", "y1">>, gap |-> 2]
      [] name = "noseq"  -> [stops |-> <<"x1", "t1", "y1">>, gap |-> 2]
      [] name = "arev"  -> [stops |-> <<"y1", "z1", "t1", "f1", "x1">>, gap |-> 2]
      [] name = "far19" -> [stops |-> Far(19), gap |-> 0]
      [] name = "far20" -> [stops |-> Far(20), gap |-> 0]

ShortServices == {"none", "xtzy", "xty", "xyxy", "tzy", "loop"}
FarServices == {"far19", "far20"}
DashServices == {"dash"}
OddServices == {"odd"}
BadSeqServices == {"badseq", "noseq"}
ReversedServices == {"arev"}

\* which visit of its trip the j-th row of a service is: the rows of "arev"
\* are written from its last visit to its first
VisitNumber(name, j) ==
    IF name \in ReversedServices THEN Len(Service(name).stops) + 1 - j ELSE j

\* the stop_sequence cell of the j-th row: "badseq" has "2a" at its second
\* row and "noseq" an empty cell
SequenceCell(name, j) ==
    IF name = "badseq" /\ j = 2 THEN Txt(<<50, 97>>)
    ELSE IF name = "noseq" /\ j = 2 THEN NaN
    ELSE Num(VisitNumber(name, j))

\* the route_id of the r-th trip: "dash" runs as route "A-B" and "arev" is
\* one more trip of route A
RouteOf(r, service) ==
    IF service \in DashServices THEN RouteAB
    ELSE IF service \in ReversedServices THEN RouteA
    ELSE PlannerRoutes[r]

\* "08:mm:00" for the j-th visit, or an empty cell
VisitTime(gap, j) ==
    IF gap = 0 THEN NaN ELSE Txt(<<Num(8), Num(gap * j), Num(0)>>)

\* "hh:mm:00"
Clock(h, m) == Txt(<<Num(h), Num(m), Num(0)>>)

\* The timetable of the service "odd": its segments have a gap of 0, a gap
\* of 49 minutes, an arrival before the departure, a gap of 4 minutes, a
\* departure "ab:10:00", an arrival "9", and a gap of 7
OddTimes ==
    <<[arrival_time |-> Clock(8, 0),  departure_time |-> Clock(8, 0)],
      [arrival_time |-> Clock(8, 0),  departure_time |-> Clock(8, 1)],
      [arrival_time |-> Clock(8, 50), departure_time |-> Clock(8, 50)],
      [arrival_time |-> Clock(8, 45), departure_time |-> Clock(8, 46)],
      [arrival_time |-> Clock(8, 50),
       departure_time |-> Txt(<<Txt("ab"), Num(10), Num(0)>>)],
      [arrival_time |-> Clock(9, 0),  departure_time |-> Clock(9, 1)],
      [arrival_time |-> Txt(<<Num(9)>>), departure_time |-> Clock(9, 10)],
      [arrival_time |-> Clock(9, 17), departure_time |-> Clock(9, 17)]>>

\* the arrival and departure cells of the visits of a service
ServiceTimes(name) ==
    IF name \in OddServices THEN OddTimes
    ELSE [j \in DOMAIN Service(name).stops |->
            [arrival_time |-> VisitTime(Service(name).gap, VisitNumber(name, j)),
             departure_time |-> VisitTime(Service(name).gap, VisitNumber(name, j))]]

PlannerTripsTable(plan) ==
    Flatten([r \in DOMAIN plan |->
        IF plan[r] = "none" THEN <<>>
        ELSE <<[trip_id |-> r, route_id |-> RouteOf(r, plan[r]), direction_id |-> D0]>>])

PlannerStopTimesTable(plan) ==
    Flatten([r \in DOMAIN plan |->
        LET sv == Service(plan[r])
            tm == ServiceTimes(plan[r])
        IN  [j \in DOMAIN sv.stops |->
                [trip_id |-> r, stop_id |-> sv.stops[j],
                 stop_sequence |-> SequenceCell(plan[r], j),
                 arrival_time |-> tm[j].arrival_time,
                 departure_time |-> tm[j].departure_time]]])

PlannerRoutesTable ==
    [cols |-> AllCols,
     rows |-> [r \in DOMAIN PlannerRoutes |-> RouteRow(PlannerRoutes[r], NaN, NaN)]
              \o <<RouteRow(RouteAB, NaN, NaN)>>]

PlannerFeeds ==
    {<<a, b, c>> : a \in ShortServices \cup FarServices \cup OddServices,
                   b \in ShortServices \cup ReversedServices,
                   c \in ShortServices \cup DashServices \cup BadSeqServices}

QueryPlaces == {PlaceX, PlaceY, PlaceZ, Nowhere}

-----------------------------------------------------------------------------
(* The planner's state machine *)

InitPlanner ==
    /\ \E plan \in PlannerFeeds :
        /\ stops = PlannerStopsTable
        /\ stop_times = PlannerStopTimesTable(plan)
        /\ trips = PlannerTripsTable(plan)
        /\ routes = PlannerRoutesTable
    /\ rep_trips = <<>>
    /\ geometries = <<>>
    /\ features = <<>>
    /\ DATA = <<>>
    /\ originLoc = <<>>
    /\ destLoc = <<>>
    /\ candidates = <<>>
    /\ results = <<>>
    /\ alert = "none"
    /\ setA = {}
    /\ setB = {}
    /\ overlap = None
    /\ disk = <<>>
    /\ cache = <<>>
    /\ reads = 0
    /\ call = <<>>
    /\ pc = "loaded"

\* build_indices and the embedding of its result in the page; when
\* build_indices raises, main() ends there and no page is written
BuildIndices ==
    /\ pc = "loaded"
    /\ IF SeqRaises(route_rep_trips(trip_to_route, trip_stop_counts))
       THEN DATA' = DATA /\ pc' = "aborted"
       ELSE /\ \E order \in RouteOrders : DATA' = build_indices(order)
            /\ pc' = "indexed"
    /\ UNCHANGED <<loaderVars, geoVars, feedVars, mapVars, originLoc, destLoc, candidates, results, alert>>

\* one call of findRoutesRaptor(originLoc, destLoc); the page can be
\* searched again and again
FindRoutesRaptor ==
    /\ pc \in {"indexed", "searched"}
    /\ \E origin \in QueryPlaces, dest \in QueryPlaces :
        /\ originLoc' = origin
        /\ destLoc' = dest
        /\ candidates' = Candidates(DATA, origin, dest)
        /\ results' = findRoutesRaptor(DATA, origin, dest)
    /\ pc' = "searched"
    /\ UNCHANGED <<loaderVars, geoVars, feedVars, mapVars, DATA, alert>>

NextPlanner == BuildIndices \/ FindRoutesRaptor

SpecPlanner == InitPlanner /\ [][NextPlanner]_vars

-----------------------------------------------------------------------------
(* What the planner's properties speak of *)

Searched == pc = "searched"

\* the stops of a place, read off the stops table
StopsOfPlace(place) ==
    {stops[i].stop_id : i \in {j \in DOMAIN stops :
        extract_base_name(stops[j].stop_name.v) = place}}

OriginStops == StopsOfPlace(originLoc)
DestStops == StopsOfPlace(destLoc)

\* the 0-based positions of a route's sequence whose stop is in S
Positions(routeId, S) ==
    {i \in 0..(Len(DATA.routeStops[routeId]) - 1) : At(DATA.routeStops[routeId], i) \in S}

Least(S) == CHOOSE i \in S : \A j \in S : i <= j
Greatest(S) == CHOOSE i \in S : \A j \in S : i >= j

DirectCandidates == {candidates[i] : i \in {j \in DOMAIN candidates : candidates[j].type = "direct"}}
TransferCandidates == {candidates[i] : i \in {j \in DOMAIN candidates : candidates[j].type = "transfer"}}

\* the destination positions of a direct itinerary's route after its start
DestAfterStart(c) ==
    {i \in Positions(c.routes[1], DestStops) : i > c.segments[1].startIdx}

\* C8 (as stated): a direct itinerary starts at the first origin-place stop
\* of its route and ends at the first destination-place stop after it
C8_DirectEndsAtFirstDest ==
    Searched =>
        \A c \in DirectCandidates :
            /\ c.segments[1].startIdx = Least(Positions(c.routes[1], OriginStops))
            /\ c.segments[1].endIdx = Least(DestAfterStart(c))

\* C8 (as the search does it): a direct itinerary starts at the first
\* origin-place stop of its route and ends at the last destination-place
\* stop after it
C8_DirectEndsAtLastDest ==
    Searched =>
        \A c \in DirectCandidates :
            /\ c.segments[1].startIdx = Least(Positions(c.routes[1], OriginStops))
            /\ c.segments[1].endIdx = Greatest(DestAfterStart(c))

\* a returned direct itinerary on a route that visits the destination place
\* twice after the origin stop
C8_Witness ==
    /\ Searched
    /\ \E i \in DOMAIN results :
        /\ results[i].type = "direct"
        /\ Cardinality(DestAfterStart(results[i])) >= 2
        /\ results[i].segments[1].endIdx = Greatest(DestAfterStart(results[i]))

\* route2 can be boarded at position i of route1 and reaches the
\* destination place after that stop
ValidTransfer(route1, i, route2) ==
    LET at == Positions(route2, {At(DATA.routeStops[route1], i)})
    IN  /\ route2 # route1
        /\ at # {}
        /\ \E j \in Positions(route2, DestStops) : j > Least(at)

\* C9: when transfers are searched, every valid transfer at one of the 20
\* positions after the origin stop of the first route is found, and none
\* farther than 20 positions is
C9_TransferWithin20 ==
    (Searched /\ OriginStops # {} /\ DestStops # {}
        /\ Cardinality(DirectCandidates) < DIRECT_ENOUGH) =>
        /\ \A route1 \in DOMAIN DATA.routeStops :
            Positions(route1, OriginStops) # {} =>
                LET o1 == Least(Positions(route1, OriginStops))
                    n == Len(DATA.routeStops[route1])
                IN  \A i \in (o1 + 1)..Min(o1 + 20, n - 1) :
                        \A route2 \in DOMAIN DATA.routeStops :
                            ValidTransfer(route1, i, route2) =>
                                \E c \in TransferCandidates :
                                    /\ c.routes = <<route1, route2>>
                                    /\ c.segments[1].startIdx = o1
                                    /\ c.segments[1].endIdx = i
        /\ \A c \in TransferCandidates :
            c.segments[1].endIdx - c.segments[1].startIdx <= 20

\* c ranks strictly before d
RanksBefore(c, d) ==
    \/ c.duration < d.duration
    \/ (c.duration = d.duration /\ c.transfers < d.transfers)

\* C10 (as stated): the returned list holds at most one itinerary per
\* unordered set of route ids, and the one kept is the best-ranked of its set
C10_OnePerRouteSet ==
    Searched =>
        /\ \A i, j \in DOMAIN results :
            Range(results[i].routes) = Range(results[j].routes) => i = j
        /\ \A i \in DOMAIN results : \A k \in DOMAIN candidates :
            Range(candidates[k].routes) = Range(results[i].routes) =>
                ~RanksBefore(candidates[k], results[i])

\* C10 (as the search does it): the returned list holds at most one
\* itinerary per ordered sequence of route ids, and the one kept is the
\* best-ranked of its sequence
C10_OnePerRouteSequence ==
    Searched =>
        /\ \A i, j \in DOMAIN results :
            results[i].routes = results[j].routes => i = j
        /\ \A i \in DOMAIN results : \A k \in DOMAIN candidates :
            candidates[k].routes = results[i].routes =>
                ~RanksBefore(candidates[k], results[i])

\* the returned list holds A-then-B and B-then-A, and a candidate of one of
\* these sequences that ranks after the returned one was dropped
C10_Witness ==
    /\ Searched
    /\ \E i, j \in DOMAIN results :
        /\ Len(results[i].routes) = 2
        /\ results[j].routes = <<results[i].routes[2], results[i].routes[1]>>
    /\ \E i \in DOMAIN results : \E k \in DOMAIN candidates :
        /\ candidates[k].routes = results[i].routes
        /\ RanksBefore(results[i], candidates[k])

\* C11: the returned list is ordered by duration ascending and, among
\* itineraries of equal duration, by transfers ascending
C11_Ordered ==
    Searched =>
        \A i, j \in DOMAIN results :
            i < j => ~RanksBefore(results[j], results[i])

\* a returned list where a direct itinerary and a one-transfer itinerary of
\* the same duration follow each other, after a shorter one
C11_Witness ==
    /\ Searched
    /\ \E i, j, k \in DOMAIN results :
        /\ i < j /\ j < k
        /\ results[i].duration < results[j].duration
        /\ results[j].duration = results[k].duration
        /\ results[j].transfers < results[k].transfers

\* the candidates that are not returned
Dropped == Range(candidates) \ Range(results)

\* C12: at most 5 itineraries are returned, and they are the best-ranked
\* distinct route combinations: a dropped candidate that ranks strictly
\* before a returned itinerary of a different combination is the duplicate
\* of a returned itinerary of its own combination that ranks no later
C12_BestFive ==
    Searched =>
        /\ Len(results) <= 5
        /\ \A c \in Dropped : \A i \in DOMAIN results :
            (Range(results[i].routes) # Range(c.routes) /\ RanksBefore(c, results[i])) =>
                \E k \in DOMAIN results :
                    /\ Range(results[k].routes) = Range(c.routes)
                    /\ ~RanksBefore(c, results[k])

\* the sum of the estimates of the segments a .. b - 1 of a route
RECURSIVE SegmentSum(_, _, _)
SegmentSum(routeId, a, b) ==
    IF a >= b THEN 0
    ELSE At(DATA.routeTravelTimes[routeId], b - 1) + SegmentSum(routeId, a, b - 1)

\* C13: a direct itinerary has 0 transfers, and its duration is the sum of
\* its route's estimates for the segments from the start index up to, but
\* not including, the end index
C13_DirectDuration ==
    Searched =>
        \A c \in DirectCandidates :
            /\ c.transfers = 0
            /\ c.duration = SegmentSum(c.routes[1], c.segments[1].startIdx,
                                       c.segments[1].endIdx)

\* a returned direct itinerary from index 2 to index 7 of a route whose
\* segments 2..6 have unequal estimates, summing to 20
C13_Witness ==
    /\ Searched
    /\ \E i \in DOMAIN results :
        /\ results[i].type = "direct"
        /\ results[i].segments[1].startIdx = 2
        /\ results[i].segments[1].endIdx = 7
        /\ results[i].duration = 3 + 4 + 3 + 3 + 7
        /\ DATA.routeTravelTimes[results[i].routes[1]] = <<1, 30, 3, 4, 3, 3, 7>>

\* a clock cell that reads as hours and minutes
Parseable(t) == t.k = "str" /\ Len(t.v) >= 2 /\ t.v[1].k = "num" /\ t.v[2].k = "num"

MinutesOf(t) == t.v[1].v * 60 + t.v[2].v

Indexed == pc = "indexed"

\* the visits of a route's representative trip, by sequence number
RepVisits(routeId) ==
    LET of_route == {trips[i].trip_id : i \in {j \in DOMAIN trips : trips[j].route_id = routeId}}
        tid == CHOOSE t \in of_route : \A u \in of_route :
                    \/ TripCount(stop_times, u) < TripCount(stop_times, t)
                    \/ (TripCount(stop_times, u) = TripCount(stop_times, t) /\ t <= u)
        own == SelectIdx(stop_times,
                         {i \in DOMAIN stop_times : stop_times[i].trip_id = tid}, 1)
    IN  StableSort(own, [i \in DOMAIN own |-> [j \in DOMAIN own |->
            own[i].stop_sequence.v < own[j].stop_sequence.v]])

\* C14: every stored travel time lies in 1..30; it is 3 when the departure
\* or the next arrival is unparseable or the arrival is earlier than the
\* departure, 1 when the gap is 0 and 30 when the gap exceeds 30
C14_TravelTimeClamp ==
    Indexed =>
        \A routeId \in DOMAIN DATA.routeTravelTimes :
            \A n \in DOMAIN DATA.routeTravelTimes[routeId] :
                LET v == DATA.routeTravelTimes[routeId][n]
                    dep == RepVisits(routeId)[n].departure_time
                    arr == RepVisits(routeId)[n + 1].arrival_time
                IN  /\ v \in 1..30
                    /\ (~Parseable(dep) \/ ~Parseable(arr)) => v = 3
                    /\ (Parseable(dep) /\ Parseable(arr)) =>
                        /\ MinutesOf(arr) < MinutesOf(dep) => v = 3
                        /\ MinutesOf(arr) = MinutesOf(dep) => v = 1
                        /\ MinutesOf(arr) - MinutesOf(dep) > 30 => v = 30

\* indices built on a timetable with a gap of 0, a gap over 30, an arrival
\* before the departure and unparseable times
C14_Witness ==
    /\ Indexed
    /\ \E routeId \in DOMAIN DATA.routeTravelTimes :
        LET vs == RepVisits(routeId)
        IN  /\ \E n \in 1..(Len(vs) - 1) :
                /\ Parseable(vs[n].departure_time) /\ Parseable(vs[n + 1].arrival_time)
                /\ MinutesOf(vs[n + 1].arrival_time) < MinutesOf(vs[n].departure_time)
            /\ \E n \in 1..(Len(vs) - 1) :
                /\ Parseable(vs[n].departure_time) /\ Parseable(vs[n + 1].arrival_time)
                /\ MinutesOf(vs[n + 1].arrival_time) = MinutesOf(vs[n].departure_time)
            /\ \E n \in 1..(Len(vs) - 1) :
                /\ Parseable(vs[n].departure_time) /\ Parseable(vs[n + 1].arrival_time)
                /\ MinutesOf(vs[n + 1].arrival_time) - MinutesOf(vs[n].departure_time) > 30
            /\ \E n \in 1..(Len(vs) - 1) :
                Parseable(vs[n].departure_time) /\ ~Parseable(vs[n + 1].arrival_time)
            /\ \E n \in 1..(Len(vs) - 1) :
                ~Parseable(vs[n].departure_time) /\ Parseable(vs[n + 1].arrival_time)

\* some route reaches a destination stop after an origin stop
DirectConnection ==
    \E routeId \in DOMAIN DATA.routeStops :
        \E i \in Positions(routeId, OriginStops), j \in Positions(routeId, DestStops) : i < j

\* some route leaves an origin stop and later meets a stop from which
\* another route goes on to a destination stop
TransferConnection ==
    \E route1, route2 \in DOMAIN DATA.routeStops :
        /\ route1 # route2
        /\ \E i \in Positions(route1, OriginStops) :
            \E k \in (i + 1)..(Len(DATA.routeStops[route1]) - 1) :
                \E m \in Positions(route2, {At(DATA.routeStops[route1], k)}) :
                    \E j \in Positions(route2, DestStops) : m < j

-----------------------------------------------------------------------------
(* The page's search form: findRoutes and its timer callback *)

\* const LOCATIONS = sorted(indices['locationCoords'].keys()); the page only
\* asks whether it includes a name
LOCATIONS(data) == DOMAIN data.locationCoords

BLANK == " "

\* String.prototype.trim on a typed value, blanks being words of their own
RECURSIVE Trim(_)
Trim(typed) ==
    IF typed = <<>> THEN <<>>
    ELSE IF Head(typed) = BLANK THEN Trim(Tail(typed))
    ELSE IF typed[Len(typed)] = BLANK THEN Trim(SubSeq(typed, 1, Len(typed) - 1))
    ELSE typed

ALERT_ORIGIN == "Please select a valid origin from the suggestions"
ALERT_DEST == "Please select a valid destination from the suggestions"
ALERT_SAME == "Origin and destination cannot be the same"

\* a faulty variant of Rejection: equal places pass
RejectionNoSame(origin, dest, locations) ==
    IF origin \notin locations THEN ALERT_ORIGIN
    ELSE IF dest \notin locations THEN ALERT_DEST
    ELSE "none"

\* the alert findRoutes raises before it returns early, "none" when the
\* request passes the three checks
Rejection(origin, dest, locations) ==
    IF origin \notin locations THEN ALERT_ORIGIN
    ELSE IF dest \notin locations THEN ALERT_DEST
    ELSE IF origin = dest THEN ALERT_SAME
    ELSE "none"

\* what can be typed in the origin and destination fields
TypedValues == {PlaceX, PlaceY, PlaceZ, Nowhere, <<>>, <<BLANK, "Y", BLANK>>}

\* the stops table, where the latitude of z1 is a number, the text "n/a"
\* or empty
ZCoords == {"ok", "text", "empty"}

PageStopsTable(zcoord) ==
    [i \in DOMAIN PlannerStopsTable |->
        IF PlannerStopsTable[i].stop_id = "z1" /\ zcoord # "ok"
        THEN [PlannerStopsTable[i] EXCEPT
                !.stop_lat = IF zcoord = "text" THEN Txt("n/a") ELSE NaN]
        ELSE PlannerStopsTable[i]]

PageFeeds ==
    {[plan |-> <<a, b, "none">>, zcoord |-> z] :
        a \in ShortServices, b \in ShortServices, z \in ZCoords}

InitPage ==
    /\ \E feed \in PageFeeds :
        /\ stops = PageStopsTable(feed.zcoord)
        /\ stop_times = PlannerStopTimesTable(feed.plan)
        /\ trips = PlannerTripsTable(feed.plan)
        /\ routes = PlannerRoutesTable
    /\ rep_trips = <<>>
    /\ geometries = <<>>
    /\ features = <<>>
    /\ DATA = <<>>
    /\ originLoc = <<>>
    /\ destLoc = <<>>
    /\ candidates = <<>>
    /\ results = <<>>
    /\ alert = "none"
    /\ setA = {}
    /\ setB = {}
    /\ overlap = None
    /\ disk = <<>>
    /\ cache = <<>>
    /\ reads = 0
    /\ call = <<>>
    /\ pc = "loaded"

\* findRoutes(), up to setTimeout: a rejected request alerts and returns; an
\* accepted one shows the loading mark and leaves the search to the timer
FindRoutes ==
    /\ pc \in {"indexed", "searched"}
    /\ \E typedOrigin \in TypedValues, typedDest \in TypedValues :
        LET origin == Trim(typedOrigin)
            dest == Trim(typedDest)
            msg == Rejection(origin, dest, LOCATIONS(DATA))
        IN  /\ alert' = msg
            /\ IF msg # "none"
               THEN UNCHANGED <<originLoc, destLoc, pc>>
               ELSE /\ originLoc' = origin
                    /\ destLoc' = dest
                    /\ pc' = "loading"
    /\ UNCHANGED <<loaderVars, geoVars, feedVars, mapVars, DATA, candidates, results>>

\* the timer callback: findRoutesRaptor(originLoc, destLoc) and displayResults
SearchTimer ==
    /\ pc = "loading"
    /\ candidates' = Candidates(DATA, originLoc, destLoc)
    /\ results' = findRoutesRaptor(DATA, originLoc, destLoc)
    /\ pc' = "searched"
    /\ UNCHANGED <<loaderVars, geoVars, feedVars, mapVars, DATA, originLoc, destLoc, alert>>

NextPage == BuildIndices \/ FindRoutes \/ SearchTimer

SpecPage == InitPage /\ [][NextPage]_vars

\* the search was invoked, or is about to be, for originLoc and destLoc
Invoked == pc \in {"loading", "searched"}

\* C16: the form never has the search run for equal places or for a place
\* outside the list of known places, and a rejected request leaves the
\* computed and displayed result list as it was
C16_CallerRejects ==
    /\ [](Invoked =>
            /\ originLoc # destLoc
            /\ originLoc \in DOMAIN DATA.locationCoords
            /\ destLoc \in DOMAIN DATA.locationCoords)
    /\ [][alert' # "none" =>
            UNCHANGED <<originLoc, destLoc, candidates, results, pc>>]_vars

\* after a search that returned itineraries, a request with equal places
\* was rejected and the list stayed
C16_Witness ==
    /\ pc = "searched"
    /\ alert = ALERT_SAME
    /\ results # <<>>

\* the words of a stop name before its first "Twd" (in any case) that has
\* a word on either side, the whole name when there is none
BaseNameOf(name) ==
    IF \E i \in 2..(Len(name) - 1) : name[i] \in TWD
    THEN SubSeq(name, 1, Least({i \in 2..(Len(name) - 1) : name[i] \in TWD}) - 1)
    ELSE name

\* the places whose member list holds a stop
PlacesOf(sid) ==
    {loc \in DOMAIN DATA.locationStops : sid \in Range(DATA.locationStops[loc])}

\* C17: every stop of the feed belongs to exactly one place, the one named
\* by its base name, and every place has at least one member stop
C17_StopsAndPlaces ==
    Indexed =>
        /\ \A i \in DOMAIN stops :
            PlacesOf(stops[i].stop_id) = {BaseNameOf(stops[i].stop_name.v)}
        /\ \A loc \in DOMAIN DATA.locationStops :
            /\ DATA.locationStops[loc] # <<>>
            /\ \A m, n \in DOMAIN DATA.locationStops[loc] :
                DATA.locationStops[loc][m] = DATA.locationStops[loc][n] => m = n

\* indices where "X Twd N" and "X TWD S" share the place X, and the names
\* "Twd W", "W Twd" and "W Twd U Twd V" give the places "Twd W", "W Twd", W
C17_Witness ==
    /\ Indexed
    /\ DATA.locationStops[PlaceX] = <<"x1", "x2">>
    /\ DATA.locationStops[<<"Twd", "W">>] = <<"w1">>
    /\ DATA.locationStops[<<"W", "Twd">>] = <<"w2">>
    /\ DATA.locationStops[<<"W">>] = <<"w3">>

-----------------------------------------------------------------------------
(* calculate_route_overlap on its own *)

MaxStopIds == 4

StopIdSets == SUBSET (1..MaxStopIds)

InitOverlap ==
    /\ setA \in StopIdSets
    /\ setB \in StopIdSets
    /\ overlap = None
    /\ disk = <<>>
    /\ cache = <<>>
    /\ reads = 0
    /\ call = <<>>
    /\ stops = <<>>
    /\ stop_times = <<>>
    /\ trips = <<>>
    /\ routes = <<>>
    /\ rep_trips = <<>>
    /\ geometries = <<>>
    /\ features = <<>>
    /\ DATA = <<>>
    /\ originLoc = <<>>
    /\ destLoc = <<>>
    /\ candidates = <<>>
    /\ results = <<>>
    /\ alert = "none"
    /\ pc = "loaded"

\* one call calculate_route_overlap(setA, setB)
CalculateOverlap ==
    /\ pc = "loaded"
    /\ overlap' = calculate_route_overlap(setA, setB)
    /\ pc' = "computed"
    /\ UNCHANGED <<loaderVars, feedVars, mapVars, planVars, setA, setB>>

NextOverlap == CalculateOverlap

SpecOverlap == InitOverlap /\ [][NextOverlap]_vars

Computed == pc = "computed"

\* equality of two quotients of set sizes
FracEq(x, y) == x.num * y.den = y.num * x.den

\* C18: the overlap of A and B equals the overlap of B and A
C18_Symmetric ==
    Computed => FracEq(overlap, calculate_route_overlap(setB, setA))

\* an overlap computed for two different non-empty sets of different sizes
\* that share a stop
C18_Witness ==
    /\ Computed
    /\ setA \cap setB # {}
    /\ Cardinality(setA) < Cardinality(setB)
    /\ ~(setA \subseteq setB)

\* C19: the overlap is 0 when either set is empty, 1 when the sets are
\* equal and non-empty, and otherwise |A \cap B| / |A \cup B|, which lies
\* between 0 and 1
C19_OverlapValue ==
    Computed =>
        /\ (setA = {} \/ setB = {}) => FracEq(overlap, [num |-> 0, den |-> 1])
        /\ (setA = setB /\ setA # {}) => FracEq(overlap, [num |-> 1, den |-> 1])
        /\ (setA # {} /\ setB # {}) =>
            /\ FracEq(overlap, [num |-> Cardinality(setA \cap setB),
                                den |-> Cardinality(setA \cup setB)])
            /\ overlap.den > 0
            /\ 0 <= overlap.num /\ overlap.num <= overlap.den

\* an overlap of 2/4 computed for two sets of three stops
C19_Witness ==
    /\ Computed
    /\ Cardinality(setA) = 3 /\ Cardinality(setB) = 3
    /\ Cardinality(setA \cap setB) = 2
    /\ overlap = [num |-> 2, den |-> 4]

-----------------------------------------------------------------------------
(* Malformed numeric fields *)

\* build_indices ended in an exception
Aborted == pc = "aborted"

\* C20: an unparseable coordinate, sequence number or clock time never
\* aborts index construction: build_indices always completes, whatever the
\* cells of the feed hold
C20_NeverAborts == ~Aborted

-----------------------------------------------------------------------------
(* C21 *)

\* the row of the trips table that holds a trip
TripRow(trip_id) == CHOOSE k \in DOMAIN trips : trips[k].trip_id = trip_id

\* C21: among the trips of a (route, direction) pair that share the
\* greatest visit count, the representative is the one that comes first in
\* the trips table.
C21_FirstOfTies ==
    Generated =>
        \A i \in DOMAIN rep_trips : \A k \in DOMAIN trips :
            (/\ trips[k].route_id = rep_trips[i].route_id
             /\ FillNa(trips[k].direction_id, D0) = rep_trips[i].direction_id
             /\ TripCount(stop_times, trips[k].trip_id)
                    = TripCount(stop_times, rep_trips[i].trip_id))
            => TripRow(rep_trips[i].trip_id) <= k

-----------------------------------------------------------------------------
(* C22 *)

\* the visits of a trip that have a coordinate, in visit order
RetainedVisits(trip_id) ==
    LET vs == VisitsOf(trip_id)
    IN  SelectIdx(vs, {i \in DOMAIN vs : VisitHasCoordinate(vs[i])}, 1)

\* the name the stops table gives a visit's stop
NameOfVisit(v) ==
    stops[CHOOSE j \in DOMAIN stops : stops[j].stop_id = v.stop_id].stop_name

\* C22: the start and end names of a geometry that has coordinates are the
\* names of the first and of the last visit that has a coordinate.
C22_EndpointNames ==
    Generated =>
        \A i \in DOMAIN geometries :
            LET g == geometries[i]
                kept == RetainedVisits(RepTrip(g.route_id, g.direction_id).trip_id)
            IN  kept # <<>> =>
                    /\ g.start = NameOfVisit(kept[1])
                    /\ g.end = NameOfVisit(kept[Len(kept)])

-----------------------------------------------------------------------------
(* C23 *)

\* the routes that visit a stop of the origin place and, later, a stop of
\* the destination place
DirectRoutes ==
    {routeId \in DOMAIN DATA.routeStops :
        \E i \in Positions(routeId, OriginStops), j \in Positions(routeId, DestStops) : i < j}

\* C23: when 3 or more routes give a direct itinerary, no one-transfer
\* itinerary is searched and every returned itinerary has 0 transfers
C23_DirectOnly ==
    (Searched /\ Cardinality(DirectRoutes) >= 3) =>
        /\ TransferCandidates = {}
        /\ \A i \in DOMAIN results : results[i].transfers = 0

\* three routes go directly, a change between two of them was possible,
\* and the three direct itineraries are what is returned
C23_Witness ==
    /\ Searched
    /\ Cardinality(DirectRoutes) = 3
    /\ TransferConnection
    /\ Len(results) = 3
    /\ \A i \in DOMAIN results : results[i].type = "direct"

-----------------------------------------------------------------------------
(* C24 *)

\* C24: a one-transfer itinerary has 1 transfer, and its duration is the
\* sum of the first route's estimates from the origin index up to the
\* transfer index, plus 5, plus the sum of the second route's estimates
\* from its transfer index up to the destination index
C24_TransferDuration ==
    Searched =>
        \A c \in TransferCandidates :
            /\ c.transfers = 1
            /\ c.duration = SegmentSum(c.routes[1], c.segments[1].startIdx,
                                       c.segments[1].endIdx)
                            + 5
                            + SegmentSum(c.routes[2], c.segments[2].startIdx,
                                         c.segments[2].endIdx)

\* a returned itinerary that rides route A from index 2 to index 4
\* (estimates 3 and 4), changes, and rides route B for two segments of 3
C24_Witness ==
    /\ Searched
    /\ \E i \in DOMAIN results :
        /\ results[i].type = "transfer"
        /\ results[i].routes = <<RouteA, RouteB>>
        /\ results[i].segments[1].startIdx = 2
        /\ results[i].segments[1].endIdx = 4
        /\ results[i].segments[2].startIdx = 0
        /\ results[i].segments[2].endIdx = 2
        /\ results[i].duration = (3 + 4) + 5 + (3 + 3)

-----------------------------------------------------------------------------
(* C25 *)

\* every stop id of the feed
FeedStopIds ==
    {stops[i].stop_id : i \in DOMAIN stops}
        \cup {stop_times[i].stop_id : i \in DOMAIN stop_times}

\* every place of the feed
FeedPlaces == {BaseNameOf(stops[i].stop_name.v) : i \in DOMAIN stops}

\* the member stops of a place
MembersOf(place) ==
    {stops[i].stop_id : i \in {j \in DOMAIN stops : BaseNameOf(stops[j].stop_name.v) = place}}

\* C25: a route is listed for a stop exactly when the stop occurs in the
\* route's sequence, and for a place exactly when a member stop of the place
\* does; every place has a list, which may be empty
C25_RouteIndices ==
    Indexed =>
        /\ \A sid \in FeedStopIds :
            /\ Range(Lookup(DATA.stopRoutes, sid)) \subseteq DOMAIN DATA.routeStops
            /\ \A routeId \in DOMAIN DATA.routeStops :
                routeId \in Range(Lookup(DATA.stopRoutes, sid))
                    <=> sid \in Range(DATA.routeStops[routeId])
        /\ \A place \in FeedPlaces :
            /\ place \in DOMAIN DATA.locationRoutes
            /\ Range(DATA.locationRoutes[place]) \subseteq DOMAIN DATA.routeStops
            /\ \A routeId \in DOMAIN DATA.routeStops :
                routeId \in Range(DATA.locationRoutes[place])
                    <=> MembersOf(place) \cap Range(DATA.routeStops[routeId]) # {}

\* place X is served by route A at x1 and by route "A-B" at x2, and the
\* place W by no route
C25_Witness ==
    /\ Indexed
    /\ Range(Lookup(DATA.stopRoutes, "x1")) = {RouteA}
    /\ Range(Lookup(DATA.stopRoutes, "x2")) = {RouteAB}
    /\ Range(DATA.locationRoutes[PlaceX]) = {RouteA, RouteAB}
    /\ DATA.locationRoutes[<<"W">>] = <<>>

-----------------------------------------------------------------------------
(* C26 *)

\* the trips of a route that have visits
TripsWithVisits(routeId) ==
    {trips[i].trip_id : i \in {j \in DOMAIN trips :
        trips[j].route_id = routeId /\ TripCount(stop_times, trips[j].trip_id) > 0}}

\* the rows of a trip in stop_times
RowsOf(tid) == {i \in DOMAIN stop_times : stop_times[i].trip_id = tid}

\* seq is the stop ids of the trip's visits by ascending sequence number:
\* each visit stands after as many entries as visits have a smaller number
InSequenceOrder(seq, tid) ==
    /\ Len(seq) = Cardinality(RowsOf(tid))
    /\ \A i \in RowsOf(tid) :
        seq[1 + Cardinality({j \in RowsOf(tid) :
                stop_times[j].stop_sequence.v < stop_times[i].stop_sequence.v})]
            = stop_times[i].stop_id

\* C26: for every route that has a trip with visits, the stored stop
\* sequence is the full stop list, by ascending sequence number, of a trip
\* of the route with the greatest visit count, and the stored travel times
\* have one entry per consecutive pair of stops
C26_RouteSequence ==
    Indexed =>
        \A routeId \in {trips[i].route_id : i \in DOMAIN trips} :
            TripsWithVisits(routeId) # {} =>
                /\ routeId \in DOMAIN DATA.routeStops
                /\ routeId \in DOMAIN DATA.routeTravelTimes
                /\ \E tid \in TripsWithVisits(routeId) :
                    /\ \A u \in TripsWithVisits(routeId) :
                        TripCount(stop_times, u) <= TripCount(stop_times, tid)
                    /\ InSequenceOrder(DATA.routeStops[routeId], tid)
                /\ Len(DATA.routeTravelTimes[routeId]) = Len(DATA.routeStops[routeId]) - 1

\* route A has a trip of 3 visits and a later trip of 5 visits whose rows
\* are written last visit first: the sequence is the one of the later trip
C26_Witness ==
    /\ Indexed
    /\ Cardinality(TripsWithVisits(RouteA)) = 2
    /\ TripCount(stop_times, 1) = 3
    /\ TripCount(stop_times, 2) = 5
    /\ DATA.routeStops[RouteA] = <<"x1", "f1", "t1", "z1", "y1">>
    /\ DATA.routeTravelTimes[RouteA] = <<2, 2, 2, 2>>

-----------------------------------------------------------------------------
(* C27 *)

\* the trips-table rows of a (route, direction) pair, a missing flag
\* counting as "0"
RowsOfPair(r, d) ==
    {k \in DOMAIN trips :
        trips[k].route_id = r /\ FillNa(trips[k].direction_id, D0) = d}

\* C27: a trip without visits that is the only trip of its (route,
\* direction) pair is returned as the pair's representative, and no
\* geometry is built from it
C27_ZeroVisitEligible ==
    Generated =>
        \A k \in DOMAIN trips :
            (/\ TripCount(stop_times, trips[k].trip_id) = 0
             /\ RowsOfPair(trips[k].route_id, FillNa(trips[k].direction_id, D0)) = {k})
            => /\ \E i \in DOMAIN rep_trips : rep_trips[i].trip_id = trips[k].trip_id
               /\ \A i \in DOMAIN geometries :
                    ~(/\ geometries[i].route_id = trips[k].route_id
                      /\ geometries[i].direction_id = FillNa(trips[k].direction_id, D0))

-----------------------------------------------------------------------------
(* C28 *)

\* the stop at a position of a route's stored sequence
StopAt(routeId, i) == At(DATA.routeStops[routeId], i)

\* C28: a one-transfer itinerary rides two different routes; its first
\* segment runs from a stop of the origin place to the transfer stop, its
\* second from the same stop on the second route to a stop of the
\* destination place, and both segments run forward
C28_TransferWellFormed ==
    Searched =>
        \A c \in TransferCandidates :
            /\ Len(c.routes) = 2
            /\ c.routes[1] # c.routes[2]
            /\ c.segments[1].routeId = c.routes[1]
            /\ c.segments[2].routeId = c.routes[2]
            /\ StopAt(c.routes[1], c.segments[1].startIdx) \in OriginStops
            /\ StopAt(c.routes[1], c.segments[1].endIdx) = c.transferStopId
            /\ StopAt(c.routes[2], c.segments[2].startIdx) = c.transferStopId
            /\ StopAt(c.routes[2], c.segments[2].endIdx) \in DestStops
            /\ c.segments[1].startIdx >= 0
            /\ c.segments[1].startIdx < c.segments[1].endIdx
            /\ c.segments[1].endIdx < Len(DATA.routeStops[c.routes[1]])
            /\ c.segments[2].startIdx >= 0
            /\ c.segments[2].startIdx < c.segments[2].endIdx
            /\ c.segments[2].endIdx < Len(DATA.routeStops[c.routes[2]])

\* a returned one-transfer itinerary whose second route visits the
\* transfer stop twice
C28_Witness ==
    /\ Searched
    /\ \E i \in DOMAIN results :
        /\ results[i].type = "transfer"
        /\ Cardinality(Positions(results[i].routes[2], {results[i].transferStopId})) = 2

-----------------------------------------------------------------------------
(* C29 *)

\* C29: in every feature of the interactive map the stop count, the length
\* of the stop list and the number of coordinate pairs are equal, and the
\* i-th coordinate pair is the (longitude, latitude) of the i-th entry of
\* the stop list
C29_StopListMatchesGeometry ==
    pc = "interactive" =>
        \A i \in DOMAIN features :
            /\ features[i].stops_count = Len(features[i].stop_list)
            /\ features[i].stops_count = Len(features[i].coordinates)
            /\ \A n \in DOMAIN features[i].stop_list :
                features[i].coordinates[n]
                    = <<features[i].stop_list[n].lon, features[i].stop_list[n].lat>>

\* a feature of a trip of 6 visits, one of which has no coordinate: 5 stops
C29_Witness ==
    /\ pc = "interactive"
    /\ \E i \in DOMAIN features : \E k \in DOMAIN rep_trips :
        /\ features[i].id[1] = rep_trips[k].route_id
        /\ TripCount(stop_times, rep_trips[k].trip_id) = 6
        /\ features[i].stops_count = 5
        /\ Len(features[i].stop_list) = 5

-----------------------------------------------------------------------------
(* src/src/data/gtfs_loader.py: the table cache of GTFSLoader *)

MaxReads == 3

\* the tables asked for
Tables == {"stops", "trips"}

\* A file of the data directory: missing, present with a content that
\* pd.read_csv parses (one of two versions), or present with a content
\* that pd.read_csv rejects
Missing == [k |-> "missing"]
Unreadable == [k |-> "unreadable"]
File(version) == [k |-> "file", version |-> version]
FileStates == {Missing, Unreadable, File(1), File(2)}

\* how a call ends
Returned(value) == [k |-> "return", value |-> value]
Raised(error) == [k |-> "raise", error |-> error]

EmptyDict == [t \in {} |-> 0]

\* dict[key] = value
Put(dict, key, value) ==
    [t \in DOMAIN dict \cup {key} |-> IF t = key THEN value ELSE dict[t]]

\* a faulty variant of load_table: the file is read whether the table is
\* cached or not
load_table_always_reads(c, d, table_name) ==
    IF d[table_name] = Missing
    THEN [cache |-> c, read |-> 0, out |-> Raised("FileNotFoundError")]
    ELSE IF d[table_name] = Unreadable
    THEN [cache |-> c, read |-> 1, out |-> Raised("ValueError")]
    ELSE [cache |-> Put(c, table_name, d[table_name].version), read |-> 1,
          out |-> Returned(d[table_name].version)]

\* _load_table: the cached table when there is one; else FileNotFoundError
\* when the file does not exist; else pd.read_csv, whose result is cached
\* and returned, or whose exception goes up
load_table(c, d, table_name) ==
    IF table_name \in DOMAIN c
    THEN [cache |-> c, read |-> 0, out |-> Returned(c[table_name])]
    ELSE IF d[table_name] = Missing
    THEN [cache |-> c, read |-> 0, out |-> Raised("FileNotFoundError")]
    ELSE IF d[table_name] = Unreadable
    THEN [cache |-> c, read |-> 1, out |-> Raised("ValueError")]
    ELSE [cache |-> Put(c, table_name, d[table_name].version), read |-> 1,
          out |-> Returned(d[table_name].version)]

\* the loop of load(): FileNotFoundError is caught and the table left out
\* of the result, any other exception ends the call
RECURSIVE LoadLoop(_, _, _, _, _)
LoadLoop(c, d, tables, result, n) ==
    IF tables = <<>> THEN [cache |-> c, read |-> n, out |-> Returned(result)]
    ELSE LET r == load_table(c, d, Head(tables))
         IN  IF r.out.k = "return"
             THEN LoadLoop(r.cache, d, Tail(tables),
                           Put(result, Head(tables), r.out.value), n + r.read)
             ELSE IF r.out.error = "FileNotFoundError"
             THEN LoadLoop(r.cache, d, Tail(tables), result, n + r.read)
             ELSE [cache |-> r.cache, read |-> n + r.read, out |-> r.out]

\* load(*tables)
load(c, d, tables) == LoadLoop(c, d, tables, EmptyDict, 0)

\* clear_cache(): self._cache.clear()
clear_cache(c) == EmptyDict

\* the argument lists of load(): up to two tables, repeats included
TableLists == {<<>>} \cup {<<t>> : t \in Tables} \cup {<<t, u>> : t \in Tables, u \in Tables}

InitLoader ==
    /\ disk \in [Tables -> FileStates]
    /\ cache = EmptyDict
    /\ reads = 0
    /\ call = [op |-> "init", arg |-> <<>>, out |-> Returned(None)]
    /\ stops = <<>>
    /\ stop_times = <<>>
    /\ trips = <<>>
    /\ routes = <<>>
    /\ rep_trips = <<>>
    /\ geometries = <<>>
    /\ features = <<>>
    /\ DATA = <<>>
    /\ originLoc = <<>>
    /\ destLoc = <<>>
    /\ candidates = <<>>
    /\ results = <<>>
    /\ alert = "none"
    /\ setA = {}
    /\ setB = {}
    /\ overlap = None
    /\ pc = "loaded"

\* loader.stops, loader.trips, ...: a lazy property, one _load_table call
Access ==
    \E t \in Tables :
        LET r == load_table(cache, disk, t)
        IN  /\ reads + r.read <= MaxReads
            /\ cache' = r.cache
            /\ reads' = reads + r.read
            /\ call' = [op |-> "access", arg |-> <<t>>, out |-> r.out]
            /\ UNCHANGED <<disk, feedVars, mapVars, planVars, geoVars, pc>>

\* loader.load(*tables)
Load ==
    \E tables \in TableLists :
        LET r == load(cache, disk, tables)
        IN  /\ reads + r.read <= MaxReads
            /\ cache' = r.cache
            /\ reads' = reads + r.read
            /\ call' = [op |-> "load", arg |-> tables, out |-> r.out]
            /\ UNCHANGED <<disk, feedVars, mapVars, planVars, geoVars, pc>>

\* loader.clear_cache()
ClearCache ==
    /\ cache' = clear_cache(cache)
    /\ call' = [op |-> "clear_cache", arg |-> <<>>, out |-> Returned(None)]
    /\ UNCHANGED <<disk, reads, feedVars, mapVars, planVars, geoVars, pc>>

\* between two calls a file of the data directory is written, replaced or
\* removed
FileChange ==
    \E t \in Tables, state \in FileStates :
        /\ disk[t] # state
        /\ disk' = [disk EXCEPT ![t] = state]
        /\ call' = [op |-> "file", arg |-> <<t>>, out |-> Returned(None)]
        /\ UNCHANGED <<cache, reads, feedVars, mapVars, planVars, geoVars, pc>>

NextLoader == Access \/ Load \/ ClearCache \/ FileChange

SpecLoader == InitLoader /\ [][NextLoader]_vars

-----------------------------------------------------------------------------
(* C30 *)

\* the table can be handed out: it is cached or its file parses
Available(t) == t \in DOMAIN cache \/ disk[t].k = "file"

\* what is handed out for an available table
Handed(t) == IF t \in DOMAIN cache THEN cache[t] ELSE disk[t].version

\* the cache after the tables of S were asked for: those already cached
\* stay as they are, those newly read are added
CacheAfter(S) ==
    [t \in DOMAIN cache \cup {u \in S : Available(u)} |-> Handed(t)]

\* no table of the list is asked of a file that pd.read_csv rejects
NoneUnreadable(tables) ==
    \A n \in DOMAIN tables :
        tables[n] \in DOMAIN cache \/ disk[tables[n]] # Unreadable

\* C30: the cache starts empty, clear_cache empties it, and every call adds
\* exactly the tables it loaded successfully; a cached table is returned
\* as cached without a file read; an access whose file is missing raises
\* FileNotFoundError and leaves the cache as it was; load() of missing
\* files raises nothing and leaves these tables out of its result
C30_CacheContract ==
    /\ (call.op = "init" => DOMAIN cache = {})
    /\ [][/\ call'.op = "clear_cache" => DOMAIN cache' = {}
          /\ call'.op = "file" => cache' = cache
          /\ call'.op = "access" =>
                LET t == call'.arg[1]
                IN  /\ t \in DOMAIN cache =>
                        /\ call'.out = Returned(cache[t])
                        /\ reads' = reads
                        /\ cache' = cache
                    /\ (t \notin DOMAIN cache /\ disk[t] = Missing) =>
                        /\ call'.out = Raised("FileNotFoundError")
                        /\ reads' = reads
                        /\ cache' = cache
                    /\ (t \notin DOMAIN cache /\ disk[t].k = "file") =>
                        /\ call'.out = Returned(disk[t].version)
                        /\ cache' = CacheAfter({t})
          /\ call'.op = "load" =>
                LET asked == Range(call'.arg)
                IN  /\ \A t \in DOMAIN cache : t \in DOMAIN cache' /\ cache'[t] = cache[t]
                    /\ DOMAIN cache' \subseteq DOMAIN cache \cup {t \in asked : Available(t)}
                    /\ (asked \subseteq DOMAIN cache) => reads' = reads
                    /\ NoneUnreadable(call'.arg) =>
                        /\ call'.out = Returned([t \in {u \in asked : Available(u)} |-> Handed(t)])
                        /\ cache' = CacheAfter(asked)
         ]_vars

\* the loader has a table cached whose file has since been replaced, and
\* the last call, a load of both tables, returned the cached one and left
\* out the one whose file is missing
C30_Witness ==
    /\ call.op = "load"
    /\ call.arg = <<"stops", "trips">>
    /\ disk["stops"] = File(2)
    /\ disk["trips"] = Missing
    /\ cache = [t \in {"stops"} |-> 1]
    /\ call.out = Returned([t \in {"stops"} |-> 1])

====
